---------------------------- MODULE Spec2Model ----------------------------
(***************************************************************************)
(* A model of the build and control plane of the genesis testnet           *)
(* orchestrator: the TestNet aggregate (testnet/testnet.go), the SSH       *)
(* client pool (ssh/client.go), the fan-out helpers                        *)
(* (blockchains/helpers/copy.go) and the tendermint build                  *)
(* (blockchains/tendermint/tendermint.go).                                 *)
(*                                                                         *)
(* Each subsystem has its own variables, its own initial condition and its *)
(* own specification; a specification leaves the variables of the other    *)
(* subsystems at a fixed value.  The error of the BuildState (bsErr) is    *)
(* shared: the ssh client reads it, the workers of the helpers and of the  *)
(* build report to it.                                                     *)
(*                                                                         *)
(* The merge of deployment details (TestNet.AddDetails), the end of a      *)
(* build (TestNet.FinishedBuilding, Store, StoreNodes) and the readers of  *)
(* the TestNet have specifications of their own, as have the operations of *)
(* the BuildState (error, scratchpad, deferred cleanups) and the quote     *)
(* check of DockerExecdLog.                                                *)
(*                                                                         *)
(* StoreNodes with labels and database failures (SpecStore), the pool      *)
(* under a fair scheduler (SpecPoolFair), the fan-out helpers under a fair *)
(* scheduler (SpecFanOutFair) and the control-plane handlers of package    *)
(* rest (SpecRest) complete the model.                                     *)
(***************************************************************************)
EXTENDS Integers, Sequences, FiniteSets, TLC

(***************************************************************************)
(* Bounds of the model.                                                    *)
(***************************************************************************)
\* goroutines that call the TestNet methods concurrently
NumCallers == 3
\* AddNode calls made in one behaviour
MaxNodes == 4
\* servers a node handed to AddNode may name
NumServerIDs == 2
\* goroutines that use one ssh Client concurrently
NumProcs == 2
\* goroutines that call the verbs of one ssh Client concurrently
NumVerbProcs == 1
\* capacity of the pool's semaphore and of NewClient's dial loop.  The source
\* sets maxConnections to 50 (ssh/client.go:24); the pool is modelled with a
\* small capacity, and with more callers than capacity.
maxConnections == 1
\* attempts of KeepTryRun.  The source sets maxRunAttempts to 20
\* (ssh/client.go:22); the loop is modelled with a small number of attempts.
maxRunAttempts == 2
\* connections the cache may grow to in one behaviour
MaxClients == 3
\* local node numbers a caller may pass to DockerExecdLog
NumLocalNodes == 1
\* step of NewClient's dial loop (ssh/client.go:40)
DialStep == 5
\* conf.ThreadLimit, the weight of a fan-out helper's semaphore
ThreadLimit == 2
\* servers handed to a fan-out helper
NumServers == 2
\* IPs (nodes) of one server
MaxIps == 2
\* (source, destination) pairs, or transfers, handed to a fan-out helper
MaxPairs == 2
\* units of work (nodes times pairs) of one call to a fan-out helper
MaxFanWork == 3
\* deployments merged into one TestNet (NewTestNet, then AddDetails)
MaxDeployments == 2
\* nodes of one deployment
MaxDDNodes == 2
\* length of the files list and of the images list of one deployment
MaxListLen == 2
\* length of a command handed to DockerExecdLog, in characters
MaxCmdLen == 2
\* AddNode calls made in one behaviour that also ends the build
MaxLockNodes == 2
\* cleanups registered with BuildState.Defer in one build
MaxDefers == 3
\* calls of BuildState.ReportError in one build
MaxReports == 2
\* build steps announced (BuildState's stepCount)
MaxSteps == 2

VARIABLES
    \* ---- TestNet (testnet/testnet.go:17-36)
    tnMux,            \* TestNet.mux: [w |-> holder of the write lock or 0, r |-> set of readers]
    Nodes,            \* TestNet.Nodes
    NewlyBuiltNodes,  \* TestNet.NewlyBuiltNodes
    tpc,              \* position of each caller inside a TestNet method
    tnode,            \* AddNode's parameter `node` (a copy owned by the caller)
    tstarted,         \* number of AddNode calls begun
    returned,         \* the values AddNode has returned, in order of return
    \* ---- ssh.Client (ssh/client.go:28-34) and the BuildState of its serverID
    clients,          \* len(sshClient.clients): the cached connections
    mux,              \* sshClient.mux: the set of goroutines holding the read lock
    sem,              \* sshClient.sem: the units held
    ppc,              \* position of each goroutine inside a Client method
    pverb,            \* the method whose body the goroutine is in: "Run" or "Scp"
    psess,            \* whether the goroutine holds a session that is not closed
    tries,            \* KeepTryRun's attempt number (0 outside KeepTryRun)
    stopAtCall,       \* whether Stop() was true when the current Run or Scp was called
    ran,              \* whether the current Run or Scp has launched its remote work
    ret,              \* the error the last Run or Scp returned
    bsErr,            \* BuildState: an error has been reported
    bsAbort,          \* BuildState: an external abort has been signalled
    scratch,          \* BuildState's scratchpad: pairs <<key, command>>, one for a key
    panicked,         \* the process has died of a panic
    \* ---- the fan-out helpers (blockchains/helpers/copy.go)
    helper,           \* the helper the main goroutine is in, or "none"
    servers,          \* argument servers (or clients): len(servers[i].Ips) of each
    nPairs,           \* len(srcDst)/2, or len(transfers)
    nArgs,            \* length of the variadic argument the caller passed
    fmted,            \* CopyBytesToAllNodes: len(fmted), two for each file written
    mpc,              \* position of the helper's main goroutine
    mi,               \* the outer loop's index i
    mj,               \* the inner loop's index j
    mnode,            \* the counter `node`
    server,           \* the loop variable `server`: its len(server.Ips)
    fsem,             \* units held of the helper's semaphore `sem`
    wk,               \* the goroutines started, in the order of their go statements
    wbase,            \* len(wk) when the helper was called
    hret,             \* the value the helper returned
    deferred,         \* BuildState: number of cleanups registered with Defer
    \* ---- tendermint.Build (blockchains/tendermint/tendermint.go)
    bpc,              \* position of Build
    peers,            \* the slice `peers` (its backing array), by absolute node number
    sent,             \* the peer list passed to each node's daemon
    progress,         \* BuildState: build steps completed (stepDone)
    stepCount,        \* BuildState: build steps announced with SetBuildSteps
    \* ---- TestNet's deployment details (testnet/testnet.go:27-32)
    Details,          \* TestNet.Details
    CombinedDetails,  \* TestNet.CombinedDetails
    tdd,              \* AddDetails' parameter `dd` of each caller
    LDD,              \* TestNet.LDD: the object the pointer designates
    \* ---- BuildState: stage, error reports and deferred cleanups
    bsStage,          \* BuildState: the stage published with SetBuildStage
    reports,          \* number of calls of ReportError
    cleanups,         \* BuildState: the cleanups registered with Defer, in order
    dpc,              \* position of DoneBuilding: "none", "cleaning" or "done"
    pending,          \* the cleanups DoneBuilding captured and has not invoked yet
    invoked,          \* the cleanups invoked, in order of invocation
    \* ---- the database
    stored,           \* the snapshot of the TestNet written by Store
    storing,          \* each caller's StoreNodes: its labels, the nodes ranged over, the rows inserted
    \* ---- ssh.Client, DockerExecdLog
    plog,             \* the parameters of each goroutine's DockerExecdLog in progress
    \* ---- the control-plane handlers (package rest)
    request,          \* the handler serving a request and what the request meets
    response          \* the http.ResponseWriter: status written and body

tnVars == <<tnMux, Nodes, NewlyBuiltNodes, tpc, tnode, tstarted, returned>>

poolVars == <<clients, mux, sem, ppc, pverb, psess, tries, stopAtCall, ran, ret,
              bsErr, bsAbort, scratch, panicked>>

\* the ssh client without the BuildState's error
clientVars == <<clients, mux, sem, ppc, pverb, psess, tries, stopAtCall, ran, ret,
                bsAbort, scratch, panicked>>

fanVars == <<helper, servers, nPairs, nArgs, fmted, mpc, mi, mj, mnode, server, fsem, wk, wbase,
             hret, deferred>>

buildVars == <<bpc, peers, sent, progress, stepCount>>

detVars == <<Details, CombinedDetails, tdd, LDD>>

lifeVars == <<bsStage, reports, cleanups, dpc, pending, invoked>>

storeVars == <<stored, storing>>

restVars == <<request, response>>

vars == <<tnVars, poolVars, fanVars, buildVars, detVars, lifeVars, storeVars, plog, restVars>>

\* what the actions of one subsystem leave alone
notTestNet == <<poolVars, fanVars, buildVars, detVars, lifeVars, storeVars, plog, restVars>>
\* what DockerExecdLog and the return of a verb leave alone outside the pool
notPoolLog == <<tnVars, fanVars, buildVars, detVars, lifeVars, storeVars, restVars>>
notPool == <<notPoolLog, plog>>
notFan == <<tnVars, clientVars, buildVars, detVars, lifeVars, storeVars, plog, restVars>>
notBuild == <<tnVars, clientVars, detVars, lifeVars, storeVars, plog, restVars, stepCount>>
notDetails == <<Nodes, NewlyBuiltNodes, tnode, tstarted, returned, restVars,
                poolVars, fanVars, buildVars, lifeVars, storeVars, plog>>
\* everything but the BuildState
notBuildState == <<tnVars, detVars, storeVars, plog, restVars, stepCount,
                   clients, mux, sem, ppc, pverb, psess, tries, stopAtCall, ran, ret, panicked,
                   helper, servers, nPairs, nArgs, fmted, mpc, mi, mj, mnode, server, fsem,
                   wk, wbase, hret, bpc, peers, sent>>
\* what the methods of the TestNet that end a build leave alone
notFinish == <<tnode, tstarted, returned, detVars, poolVars, fanVars, buildVars, plog, restVars>>

Range(s) == {s[x] : x \in DOMAIN s}

(***************************************************************************)
(* TestNet                                                                 *)
(***************************************************************************)
Callers == 1..NumCallers

NoNode == [Server |-> 0, LocalID |-> 0, AbsoluteNum |-> 0]

\* NewTestNet: Nodes and NewlyBuiltNodes are empty, the lock is free.
InitTestNet ==
    /\ tnMux = [w |-> 0, r |-> {}]
    /\ Nodes = <<>>
    /\ NewlyBuiltNodes = <<>>
    /\ tpc = [c \in Callers |-> "idle"]
    /\ tnode = [c \in Callers |-> NoNode]
    /\ tstarted = 0
    /\ returned = <<>>

\* sync.RWMutex.Lock: granted when nobody reads and nobody writes.
MuxFree(m) == m.w = 0 /\ m.r = {}

\* A lock that excludes nobody (AddNode without tn.mux.Lock()).
MuxFreeNoExclusion(m) == TRUE

\* tn.mux.Lock() of AddNode
AddNodeMayLock(m) == MuxFree(m)

\* AddNode, line 111: tn.mux.Lock(); the caller brings a node of its own.
AddNodeLock(c) ==
    /\ tpc[c] = "idle"
    /\ tstarted < MaxNodes
    /\ AddNodeMayLock(tnMux)
    /\ \E s \in 1..NumServerIDs, l \in 0..1 :
          tnode' = [tnode EXCEPT ![c] = [Server |-> s, LocalID |-> l, AbsoluteNum |-> 0]]
    /\ tnMux' = [tnMux EXCEPT !.w = c]
    /\ tpc' = [tpc EXCEPT ![c] = "locked"]
    /\ tstarted' = tstarted + 1
    /\ UNCHANGED <<Nodes, NewlyBuiltNodes, returned, notTestNet>>

\* line 113: node.AbsoluteNum = len(tn.Nodes)
AddNodeAssign(c) ==
    /\ tpc[c] = "locked"
    /\ tnode' = [tnode EXCEPT ![c].AbsoluteNum = Len(Nodes)]
    /\ tpc' = [tpc EXCEPT ![c] = "assigned"]
    /\ UNCHANGED <<tnMux, Nodes, NewlyBuiltNodes, tstarted, returned, notTestNet>>

\* line 114: tn.NewlyBuiltNodes = append(tn.NewlyBuiltNodes, node)
AddNodeAppendNew(c) ==
    /\ tpc[c] = "assigned"
    /\ NewlyBuiltNodes' = Append(NewlyBuiltNodes, tnode[c])
    /\ tpc' = [tpc EXCEPT ![c] = "appendedNew"]
    /\ UNCHANGED <<tnMux, Nodes, tnode, tstarted, returned, notTestNet>>

\* line 115: tn.Nodes = append(tn.Nodes, node)
AddNodeAppend(c) ==
    /\ tpc[c] = "appendedNew"
    /\ Nodes' = Append(Nodes, tnode[c])
    /\ tpc' = [tpc EXCEPT ![c] = "appended"]
    /\ UNCHANGED <<tnMux, NewlyBuiltNodes, tnode, tstarted, returned, notTestNet>>

\* line 116 and the deferred tn.mux.Unlock() of line 112
AddNodeReturn(c) ==
    /\ tpc[c] = "appended"
    /\ returned' = Append(returned, tnode[c].AbsoluteNum)
    /\ tnMux' = [tnMux EXCEPT !.w = IF tnMux.w = c THEN 0 ELSE tnMux.w]
    /\ tpc' = [tpc EXCEPT ![c] = "idle"]
    /\ tnode' = [tnode EXCEPT ![c] = NoNode]
    /\ UNCHANGED <<Nodes, NewlyBuiltNodes, tstarted, notTestNet>>

NextTestNet ==
    \E c \in Callers :
        \/ AddNodeLock(c)
        \/ AddNodeAssign(c)
        \/ AddNodeAppendNew(c)
        \/ AddNodeAppend(c)
        \/ AddNodeReturn(c)

(***************************************************************************)
(* TestNet: the deployment details and their merge                         *)
(***************************************************************************)
\* the custom files of one node: a map, modelled by the set of its keys
FileMaps == {{"a"}, {"b"}}

ImageNames == {"img1", "img2"}

\* a nil map (the elements of make([]map[string]string, n))
NilMap == {"<nil>"}

\* a nil slice
NilSlice == [nil |-> TRUE, v |-> <<>>]

\* the slices over S a deployment may carry: nil, empty, or up to MaxListLen elements
Slices(S) ==
    {NilSlice} \cup {[nil |-> FALSE, v |-> l] : l \in UNION {[1..n -> S] : n \in 0..MaxListLen}}

\* db.DeploymentDetails: the fields the merge reads.  Every field holds JSON
\* data, so json.Marshal of a DeploymentDetails does not fail.
DeploymentDetails ==
    [Nodes : 1..MaxDDNodes, Files : Slices(FileMaps), Images : Slices(ImageNames)]

\* the zero DeploymentDetails
NoDetails == [Nodes |-> 0, Files |-> NilSlice, Images |-> NilSlice]

\* a pointer to a DeploymentDetails: nil, the address of element idx of
\* tn.Details, or the address of a variable of its own, whose value is obj
NilPointer == [at |-> "nil", idx |-> 0, obj |-> NoDetails]

\* &tn.Details[len(tn.Details)-1] (lines 130, 208)
AddressOfLast(ds) == [at |-> "Details", idx |-> Len(ds), obj |-> NoDetails]

\* &details (line 77): the address of NewTestNet's parameter, which holds a
\* copy of the caller's value
AddressOfParameter(details) == [at |-> "details", idx |-> 0, obj |-> details]

InitDetails ==
    /\ Details = <<>>
    /\ CombinedDetails = NoDetails
    /\ tdd = [c \in Callers |-> NoDetails]
    /\ LDD = NilPointer

\* NewTestNet, lines 75-77: Details holds the first deployment and
\* CombinedDetails is a copy of it.
NewTestNet(details) ==
    /\ Details = <<>>
    /\ \A c \in Callers : tpc[c] = "idle"
    /\ Details' = <<details>>
    /\ CombinedDetails' = details
    /\ LDD' = AddressOfParameter(details)
    /\ UNCHANGED <<tnMux, tpc, tdd, notDetails>>

\* json.Marshal(dd), line 125: every field is written, a nil slice as null.
Marshal(dd) ==
    [nodes |-> dd.Nodes,
     files |-> [null |-> dd.Files.nil, arr |-> dd.Files.v],
     images |-> [null |-> dd.Images.nil, arr |-> dd.Images.v]]

\* encoding/json decoding an object into a map: a nil map is allocated, a
\* map that exists is reused and keeps its entries.
MapMerge(old, new) == IF old = NilMap THEN new ELSE old \cup new

\* encoding/json decoding an array of strings into a slice: null gives nil,
\* an array replaces the elements.
UnmarshalStrings(j) == IF j.null THEN NilSlice ELSE [nil |-> FALSE, v |-> j.arr]

\* encoding/json decoding an array of objects into a slice of maps: element
\* i of the array is decoded into element i of the slice where the slice has
\* one, and appended otherwise.
UnmarshalMaps(old, j) ==
    IF j.null THEN NilSlice
    ELSE [nil |-> FALSE,
          v |-> [i \in 1..Len(j.arr) |->
                    IF i <= Len(old.v) THEN MapMerge(old.v[i], j.arr[i]) ELSE j.arr[i]]]

\* What the decoding of line 133 leaves in the backing array of the slice the
\* copy oldCD.Files still points to: elements below both lengths were decoded
\* in place.
DecodedInPlace(old, j) ==
    IF j.null THEN old
    ELSE [nil |-> old.nil,
          v |-> [i \in 1..Len(old.v) |->
                    IF i <= Len(j.arr) THEN MapMerge(old.v[i], j.arr[i]) ELSE old.v[i]]]

\* json.Unmarshal(tmp, &tn.CombinedDetails), line 133
Unmarshal(j, cd) ==
    [Nodes |-> j.nodes,
     Files |-> UnmarshalMaps(cd.Files, j.files),
     Images |-> UnmarshalStrings(j.images)]

\* lines 141-148 and 159-166: a nil slice becomes make(.., n); a slice shorter
\* than n is filled up to n with `fill`.
PadTo(s, n, zero, fill) ==
    LET base == IF s.nil THEN [i \in 1..n |-> zero] ELSE s.v
    IN  IF Len(base) < n
          THEN base \o [i \in 1..(n - Len(base)) |-> fill]
          ELSE base

\* the element lines 162-166 pad with: tn.CombinedDetails.Images[0]
FirstImage(s) == IF s.nil \/ s.v = <<>> THEN "" ELSE s.v[1]

\* The nodes left by the decoding alone (AddDetails without line 155).
NodesNotSummed(oldNodes, dd) == dd.Nodes

\* line 155: tn.CombinedDetails.Nodes = oldCD.Nodes + dd.Nodes
MergeNodes(oldNodes, dd) == oldNodes + dd.Nodes

\* lines 139-152: the files of the merge
MergeFiles(oldFiles, dd) ==
    IF ~dd.Files.nil /\ Len(dd.Files.v) > 0
      THEN [nil |-> FALSE, v |-> PadTo(oldFiles, CombinedDetails.Nodes, NilMap, {}) \o dd.Files.v]
      ELSE oldFiles

\* lines 158-170: the images of the merge, on what line 133 decoded
MergeImages(images, dd) ==
    IF ~dd.Images.nil /\ Len(dd.Images.v) > 0
      THEN [nil |-> FALSE,
            v |-> PadTo(images, CombinedDetails.Nodes, "", FirstImage(images)) \o dd.Images.v]
      ELSE images

\* AddDetails, line 121: tn.mux.Lock()
AddDetailsLock(c) ==
    /\ tpc[c] = "idle"
    /\ Details # <<>>
    /\ Len(Details) < MaxDeployments
    /\ MuxFree(tnMux)
    /\ \E dd \in DeploymentDetails : tdd' = [tdd EXCEPT ![c] = dd]
    /\ tnMux' = [tnMux EXCEPT !.w = c]
    /\ tpc' = [tpc EXCEPT ![c] = "detailsLocked"]
    /\ UNCHANGED <<Details, CombinedDetails, LDD, notDetails>>

\* line 123: tn.Details = append(tn.Details, dd)
AddDetailsAppend(c) ==
    /\ tpc[c] = "detailsLocked"
    /\ Details' = Append(Details, tdd[c])
    /\ tpc' = [tpc EXCEPT ![c] = "detailsAppended"]
    /\ UNCHANGED <<tnMux, CombinedDetails, tdd, LDD, notDetails>>

\* lines 125-170: LDD is set to the address of the element appended; oldCD
\* is the combined details before the decoding; the
\* decoding overwrites every field, Files is set back to oldCD.Files, Images is
\* not set back.
AddDetailsMerge(c) ==
    /\ tpc[c] = "detailsAppended"
    /\ LET dd == tdd[c]
           tmp == Marshal(dd)
           oldCD == CombinedDetails
           decoded == Unmarshal(tmp, oldCD)
           oldFiles == DecodedInPlace(oldCD.Files, tmp.files)
       IN  CombinedDetails' = [Nodes |-> MergeNodes(oldCD.Nodes, dd),
                               Files |-> MergeFiles(oldFiles, dd),
                               Images |-> MergeImages(decoded.Images, dd)]
    /\ LDD' = AddressOfLast(Details)
    /\ tpc' = [tpc EXCEPT ![c] = "detailsMerged"]
    /\ UNCHANGED <<tnMux, Details, tdd, notDetails>>

\* line 171 and the deferred tn.mux.Unlock() of line 122
AddDetailsReturn(c) ==
    /\ tpc[c] = "detailsMerged"
    /\ tnMux' = [tnMux EXCEPT !.w = IF tnMux.w = c THEN 0 ELSE tnMux.w]
    /\ tpc' = [tpc EXCEPT ![c] = "idle"]
    /\ tdd' = [tdd EXCEPT ![c] = NoDetails]
    /\ UNCHANGED <<Details, CombinedDetails, LDD, notDetails>>

NextDetails ==
    \/ \E details \in DeploymentDetails : NewTestNet(details)
    \/ \E c \in Callers :
          \/ AddDetailsLock(c)
          \/ AddDetailsAppend(c)
          \/ AddDetailsMerge(c)
          \/ AddDetailsReturn(c)

(***************************************************************************)
(* ssh.Client: the pool of connections of one server                       *)
(***************************************************************************)
Procs == 1..NumProcs

\* the goroutines that call every verb (NumVerbProcs <= NumProcs)
VerbProcs == 1..NumVerbProcs

LocalNodes == 0..(NumLocalNodes - 1)

\* BuildState.Stop(): an error has been reported or an abort signalled.
Stop == bsErr \/ bsAbort

\* BuildState.GetError(): the reported error, or nil.
GetError == IF bsErr THEN "build" ELSE "nil"

\* NewClient, lines 40-47: one connection for every DialStep units of i.
RECURSIVE NewClientConns(_)
NewClientConns(i) == IF i > 0 THEN 1 + NewClientConns(i - DialStep) ELSE 0

\* NewClient has returned a client: its connections are cached, the lock and
\* the semaphore are free, and no error has been reported to the BuildState.
InitPool ==
    /\ clients = NewClientConns(maxConnections)
    /\ mux = {}
    /\ sem = 0
    /\ ppc = [p \in Procs |-> "idle"]
    /\ pverb = [p \in Procs |-> "Run"]
    /\ psess = [p \in Procs |-> FALSE]
    /\ tries = [p \in Procs |-> 0]
    /\ stopAtCall = [p \in Procs |-> FALSE]
    /\ ran = [p \in Procs |-> FALSE]
    /\ ret = [p \in Procs |-> "none"]
    /\ bsErr = FALSE
    /\ bsAbort = FALSE
    /\ scratch = {}
    /\ panicked = FALSE

\* A goroutine has called sshClient.mux.Lock() (line 90) and waits for it.
\* A blocked Lock of sync.RWMutex keeps new readers out.
WriterWaiting == \E q \in Procs : ppc[q] = "lock"

\* goroutines that dial or hold a dialed connection not yet appended
Dialing == Cardinality({q \in Procs : ppc[q] \in {"dial", "lock"}})

\* a semaphore that never blocks
SemNoLimit(s) == TRUE

\* sem.Acquire(ctx, 1), line 58: blocks while maxConnections units are held
SemMayAcquire(s) == s < maxConnections

\* a Close that keeps the unit
CloseKeepsUnit(p) ==
    /\ sem' = sem
    /\ psess' = [psess EXCEPT ![p] = FALSE]

\* Session.Close: closes the ssh session and releases the unit it holds.
SessionClose(p) ==
    /\ sem' = sem - 1
    /\ psess' = [psess EXCEPT ![p] = FALSE]

\* Run, lines 126-127, up to getSession's RLock of line 56.
RunEnter(p) ==
    /\ ~panicked
    /\ ~WriterWaiting
    /\ mux' = mux \cup {p}
    /\ ppc' = [ppc EXCEPT ![p] = "acquire"]
    /\ pverb' = [pverb EXCEPT ![p] = "Run"]
    /\ stopAtCall' = [stopAtCall EXCEPT ![p] = Stop]
    /\ ran' = [ran EXCEPT ![p] = FALSE]
    /\ ret' = [ret EXCEPT ![p] = "none"]

\* Run(command)
Run(p) ==
    /\ ppc[p] = "idle"
    /\ RunEnter(p)
    /\ UNCHANGED <<clients, sem, psess, tries, bsErr, bsAbort, scratch, panicked, notPool>>

\* DockerExec, lines 171-173: Run of the formatted command
DockerExec(p) ==
    /\ ppc[p] = "idle"
    /\ RunEnter(p)
    /\ UNCHANGED <<clients, sem, psess, tries, bsErr, bsAbort, scratch, panicked, notPool>>

\* DockerCp, lines 176-179: Run of the formatted command
DockerCp(p) ==
    /\ ppc[p] = "idle"
    /\ RunEnter(p)
    /\ UNCHANGED <<clients, sem, psess, tries, bsErr, bsAbort, scratch, panicked, notPool>>

\* KeepTryRun, lines 154-162: returns at once when the build is stopped,
\* otherwise makes its first attempt.
KeepTryRun(p) ==
    /\ ppc[p] = "idle"
    /\ ~panicked
    /\ IF Stop
         THEN /\ ppc' = [ppc EXCEPT ![p] = "returned"]
              /\ ret' = [ret EXCEPT ![p] = GetError]
              /\ stopAtCall' = [stopAtCall EXCEPT ![p] = TRUE]
              /\ UNCHANGED <<mux, pverb, ran, tries>>
         ELSE /\ RunEnter(p)
              /\ tries' = [tries EXCEPT ![p] = 1]
    /\ UNCHANGED <<clients, sem, psess, bsErr, bsAbort, scratch, panicked, notPool>>

\* KeepTryRun, lines 161-167: after an attempt, stop at the first success or
\* after maxRunAttempts attempts, else try again.
KeepTryRunNext(p) ==
    /\ ppc[p] = "attempted"
    /\ ~panicked
    /\ IF ret[p] = "nil" \/ tries[p] >= maxRunAttempts
         THEN /\ ppc' = [ppc EXCEPT ![p] = "returned"]
              /\ UNCHANGED <<mux, pverb, stopAtCall, ran, ret, tries>>
         ELSE /\ RunEnter(p)
              /\ tries' = [tries EXCEPT ![p] = tries[p] + 1]
    /\ UNCHANGED <<clients, sem, psess, bsErr, bsAbort, scratch, panicked, notPool>>

\* the characters of a command: the single quote, the backslash, any other
Chars == {"'", "\\", "x"}

\* the commands a caller may pass to DockerExecdLog
Commands == UNION {[1..n -> Chars] : n \in 0..MaxCmdLen}

\* strings.Count(s, sub): the number of non-overlapping occurrences of sub
RECURSIVE Count(_, _)
Count(str, sub) ==
    IF Len(str) < Len(sub) THEN 0
    ELSE IF SubSeq(str, 1, Len(sub)) = sub
           THEN 1 + Count(SubSeq(str, Len(sub) + 1, Len(str)), sub)
           ELSE Count(Tail(str), sub)

\* A logSanitizeAndStore that stores whatever it is given.
NoQuoteCheck(command) == TRUE

\* logSanitizeAndStore, lines 216-218: the command passes when it has as many
\* ' as \'
PassesQuoteCheck(command) == Count(command, <<"'">>) = Count(command, <<"\\", "'">>)

\* BuildState.Set(key, value): the value replaces what the key held
ScratchSet(pad, key, value) == {e \in pad : e[1] # key} \cup {<<key, value>>}

\* the decimal digits
DigitChars == <<"0", "1", "2", "3", "4", "5", "6", "7", "8", "9">>

\* fmt.Sprintf("%d", node), line 220: the decimal numeral of a node number
RECURSIVE NodeKey(_)
NodeKey(node) ==
    IF node < 10 THEN <<DigitChars[node + 1]>>
    ELSE Append(NodeKey(node \div 10), DigitChars[(node % 10) + 1])

\* util.Command{Cmdline: command, ServerID: sshClient.serverID, Node: node},
\* line 220
Command(command, serverID, node) ==
    [Cmdline |-> command, ServerID |-> serverID, Node |-> node]

\* no DockerExecdLog in progress
NoLog == [on |-> FALSE, node |-> 0, cmd |-> <<>>]

InitLog == plog = [p \in Procs |-> NoLog]

\* DockerExecdLog, lines 215-231: logSanitizeAndStore panics on a command
\* whose quotes are not all escaped, else stores the command under the key
\* of the node; then Run.
DockerExecdLog(p) ==
    /\ ppc[p] = "idle"
    /\ ~panicked
    /\ \E node \in LocalNodes, command \in Commands :
          /\ plog' = [plog EXCEPT ![p] = [on |-> TRUE, node |-> node, cmd |-> command]]
          /\ IF ~PassesQuoteCheck(command)
               THEN /\ ppc' = [ppc EXCEPT ![p] = "panic"]
                    /\ panicked' = TRUE
                    /\ UNCHANGED <<mux, pverb, stopAtCall, ran, ret, scratch>>
               ELSE /\ scratch' = ScratchSet(scratch, NodeKey(node), command)
                    /\ RunEnter(p)
                    /\ UNCHANGED panicked
    /\ UNCHANGED <<clients, sem, psess, tries, bsErr, bsAbort, notPoolLog>>

\* Scp, lines 283-292, up to getSession's RLock of line 56.
Scp(p) ==
    /\ ppc[p] = "idle"
    /\ ~panicked
    /\ ~WriterWaiting
    /\ mux' = mux \cup {p}
    /\ ppc' = [ppc EXCEPT ![p] = "acquire"]
    /\ pverb' = [pverb EXCEPT ![p] = "Scp"]
    /\ stopAtCall' = [stopAtCall EXCEPT ![p] = Stop]
    /\ ran' = [ran EXCEPT ![p] = FALSE]
    /\ ret' = [ret EXCEPT ![p] = "none"]
    /\ UNCHANGED <<clients, sem, psess, tries, bsErr, bsAbort, scratch, panicked, notPool>>

\* getSession, lines 58-67: sem.Acquire with the read lock held, then the
\* scan of the cache: the first cached connection that accepts a session
\* gives it; when all refuse, the read lock is dropped and a connection is
\* dialed.
GetSessionAcquire(p) ==
    /\ ppc[p] = "acquire"
    /\ ~panicked
    /\ SemMayAcquire(sem)
    /\ sem' = sem + 1
    /\ mux' = mux \ {p}
    /\ \/ /\ psess' = [psess EXCEPT ![p] = TRUE]
          /\ ppc' = [ppc EXCEPT ![p] = "check"]
       \/ /\ clients + Dialing < MaxClients
          /\ ppc' = [ppc EXCEPT ![p] = "dial"]
          /\ UNCHANGED psess
    /\ UNCHANGED <<clients, pverb, tries, stopAtCall, ran, ret,
                   bsErr, bsAbort, scratch, panicked, notPool>>

\* getSession, lines 69-89: sshConnect (retried on reset and EOF) and
\* NewSession; each failure releases the unit and returns the error.
GetSessionDial(p) ==
    /\ ppc[p] = "dial"
    /\ ~panicked
    /\ \/ /\ ppc' = [ppc EXCEPT ![p] = "lock"]
          /\ UNCHANGED sem
       \/ /\ sem' = sem - 1
          /\ ppc' = [ppc EXCEPT ![p] = "check"]
    /\ UNCHANGED <<clients, mux, pverb, psess, tries, stopAtCall, ran, ret,
                   bsErr, bsAbort, scratch, panicked, notPool>>

\* getSession, lines 90-93: append the connection under the write lock
GetSessionAppend(p) ==
    /\ ppc[p] = "lock"
    /\ ~panicked
    /\ mux = {}
    /\ clients' = clients + 1
    /\ psess' = [psess EXCEPT ![p] = TRUE]
    /\ ppc' = [ppc EXCEPT ![p] = "check"]
    /\ UNCHANGED <<mux, sem, pverb, tries, stopAtCall, ran, ret,
                   bsErr, bsAbort, scratch, panicked, notPool>>

\* where Run returns to: KeepTryRun's loop, or the caller
AfterRun(p) == IF tries[p] > 0 THEN "attempted" ELSE "returned"

\* a Run that does not look at the BuildState
RunIgnoresStop == FALSE

\* Run, line 133: if bs.Stop()
RunConsultsStop == Stop

\* Run, lines 131-142.  `defer session.Close()` comes before the test of err:
\* after a failed getSession the session is nil, and the deferred Close
\* dereferences it when Run returns.
RunCheck(p) ==
    /\ ppc[p] = "check"
    /\ pverb[p] = "Run"
    /\ ~panicked
    /\ IF ~psess[p]
         THEN /\ ppc' = [ppc EXCEPT ![p] = "panic"]
              /\ panicked' = TRUE
              /\ UNCHANGED <<sem, psess, ran, ret>>
         ELSE IF RunConsultsStop
         THEN /\ ret' = [ret EXCEPT ![p] = GetError]
              /\ SessionClose(p)
              /\ ppc' = [ppc EXCEPT ![p] = AfterRun(p)]
              /\ UNCHANGED <<ran, panicked>>
         ELSE /\ ppc' = [ppc EXCEPT ![p] = "exec"]
              /\ ran' = [ran EXCEPT ![p] = TRUE]
              /\ UNCHANGED <<sem, psess, ret, panicked>>
    /\ UNCHANGED <<clients, mux, pverb, tries, stopAtCall, bsErr, bsAbort, scratch, notPool>>

\* Run, lines 142-149: CombinedOutput returns; the deferred Close runs.
RunFinish(p) ==
    /\ ppc[p] = "exec"
    /\ pverb[p] = "Run"
    /\ ~panicked
    /\ \E e \in {"nil", "cmd"} : ret' = [ret EXCEPT ![p] = e]
    /\ SessionClose(p)
    /\ ppc' = [ppc EXCEPT ![p] = AfterRun(p)]
    /\ UNCHANGED <<clients, mux, pverb, tries, stopAtCall, ran,
                   bsErr, bsAbort, scratch, panicked, notPool>>

\* Scp, lines 292-298: the error of getSession is returned before any defer;
\* otherwise the copy starts.  Scp does not consult the BuildState.
ScpCheck(p) ==
    /\ ppc[p] = "check"
    /\ pverb[p] = "Scp"
    /\ ~panicked
    /\ IF ~psess[p]
         THEN /\ ret' = [ret EXCEPT ![p] = "dial"]
              /\ ppc' = [ppc EXCEPT ![p] = "returned"]
              /\ UNCHANGED ran
         ELSE /\ ppc' = [ppc EXCEPT ![p] = "exec"]
              /\ ran' = [ran EXCEPT ![p] = TRUE]
              /\ UNCHANGED ret
    /\ UNCHANGED <<clients, mux, sem, pverb, psess, tries, stopAtCall,
                   bsErr, bsAbort, scratch, panicked, notPool>>

\* Scp, lines 296-307: CopyPath returns; the deferred Close runs.
ScpFinish(p) ==
    /\ ppc[p] = "exec"
    /\ pverb[p] = "Scp"
    /\ ~panicked
    /\ \E e \in {"nil", "cmd"} : ret' = [ret EXCEPT ![p] = e]
    /\ SessionClose(p)
    /\ ppc' = [ppc EXCEPT ![p] = "returned"]
    /\ UNCHANGED <<clients, mux, pverb, tries, stopAtCall, ran,
                   bsErr, bsAbort, scratch, panicked, notPool>>

\* the caller takes the result; the goroutine is free for another call
Return(p) ==
    /\ ppc[p] = "returned"
    /\ ~panicked
    /\ ppc' = [ppc EXCEPT ![p] = "idle"]
    /\ pverb' = [pverb EXCEPT ![p] = "Run"]
    /\ tries' = [tries EXCEPT ![p] = 0]
    /\ stopAtCall' = [stopAtCall EXCEPT ![p] = FALSE]
    /\ ran' = [ran EXCEPT ![p] = FALSE]
    /\ ret' = [ret EXCEPT ![p] = "none"]
    /\ plog' = [plog EXCEPT ![p] = NoLog]
    /\ UNCHANGED <<clients, mux, sem, psess, bsErr, bsAbort, scratch, panicked, notPoolLog>>

\* BuildState.ReportError, called by some worker of the build
ReportError ==
    /\ ~panicked
    /\ ~bsErr
    /\ bsErr' = TRUE
    /\ UNCHANGED <<clients, mux, sem, ppc, pverb, psess, tries, stopAtCall, ran, ret,
                   bsAbort, scratch, panicked, notPool>>

\* an external abort of the build
Abort ==
    /\ ~panicked
    /\ ~bsAbort
    /\ bsAbort' = TRUE
    /\ UNCHANGED <<clients, mux, sem, ppc, pverb, psess, tries, stopAtCall, ran, ret,
                   bsErr, scratch, panicked, notPool>>

\* the pool under concurrent Run and Scp callers
NextPool ==
    \/ \E p \in Procs :
        \/ Run(p)
        \/ DockerExec(p)
        \/ DockerCp(p)
        \/ Scp(p)
        \/ GetSessionAcquire(p)
        \/ GetSessionDial(p)
        \/ GetSessionAppend(p)
        \/ RunCheck(p)
        \/ RunFinish(p)
        \/ ScpCheck(p)
        \/ ScpFinish(p)
        \/ Return(p)
    \/ ReportError
    \/ Abort

\* every verb of the client
NextVerbs ==
    \/ \E p \in VerbProcs :
        \/ Run(p)
        \/ DockerExec(p)
        \/ DockerCp(p)
        \/ KeepTryRun(p)
        \/ KeepTryRunNext(p)
        \/ DockerExecdLog(p) /\ plog'[p].cmd \in {<<>>, <<"'">>}
        \/ Scp(p)
        \/ GetSessionAcquire(p)
        \/ GetSessionDial(p)
        \/ GetSessionAppend(p)
        \/ RunCheck(p)
        \/ RunFinish(p)
        \/ ScpCheck(p)
        \/ ScpFinish(p)
        \/ Return(p)
    \/ ReportError
    \/ Abort

\* one goroutine calling DockerExecdLog with every command, under reports and
\* aborts
NextLog ==
    \/ \E p \in {1} :
        \/ DockerExecdLog(p)
        \/ GetSessionAcquire(p)
        \/ GetSessionDial(p)
        \/ GetSessionAppend(p)
        \/ RunCheck(p)
        \/ RunFinish(p)
        \/ Return(p)
    \/ ReportError
    \/ Abort

(***************************************************************************)
(* The fan-out helpers (blockchains/helpers/copy.go).  A verb of the ssh   *)
(* client is seen from its caller: it is outstanding from its call to its  *)
(* return, and it returns nil or an error.                                 *)
(***************************************************************************)
RECURSIVE SumIps(_)
\* total number of nodes of a list of servers
SumIps(s) == IF s = <<>> THEN 0 ELSE s[1] + SumIps(Tail(s))

\* the lists of servers a helper may be handed, each by its number of IPs
ServerLists ==
    {s \in UNION {[1..n -> 0..MaxIps] : n \in 1..NumServers} : SumIps(s) <= MaxFanWork}

\* a goroutine at its go statement: def tells whether it has registered a
\* cleanup, inc counts its calls of IncrementBuildProgress
Worker(kind, i, j, k, node) ==
    [kind |-> kind, i |-> i, j |-> j, k |-> k, node |-> node,
     pc |-> "start", n |-> 0, failed |-> FALSE, def |-> FALSE, inc |-> 0]

\* the positions of wk: a build starts two goroutines for every node in its
\* init and start phases, and in its distribution two goroutines for every
\* server and at most MaxIps more for each
WorkerIds == 1..(2 * MaxFanWork + 2 * NumServers + NumServers * MaxIps)

\* the goroutines started by the current call
Mine == (wbase + 1)..Len(wk)

InitFan ==
    /\ helper = "none"
    /\ servers = <<>>
    /\ nPairs = 0
    /\ nArgs = 0
    /\ fmted = 0
    /\ mpc = "idle"
    /\ mi = 0
    /\ mj = 0
    /\ mnode = 0
    /\ server = 0
    /\ fsem = 0
    /\ wk = <<>>
    /\ wbase = 0
    /\ hret = "none"
    /\ deferred = 0

\* the entry of a helper: its locals are fresh.  v is "none", or the value
\* the helper returns before it starts any goroutine.
Enter(h, srv, np, pc, v) ==
    /\ helper' = h
    /\ servers' = srv
    /\ nPairs' = np
    /\ mpc' = pc
    /\ mi' = 0
    /\ mj' = 0
    /\ mnode' = 0
    /\ server' = 0
    /\ fsem' = 0
    /\ wbase' = Len(wk)
    /\ hret' = v

\* CopyAllToServers(clients, buildState, srcDst...), lines 19-23: one client
\* for each server of srv; odd says that len(srcDst) is odd.
CopyAllToServers(srv, np, odd) ==
    /\ bpc = "idle"
    /\ mpc = "idle"
    /\ Len(srv) * np <= MaxFanWork
    /\ IF odd THEN Enter("CopyAllToServers", srv, np, "returned", "args")
              ELSE Enter("CopyAllToServers", srv, np, "outer", "none")
    /\ nArgs' = 2 * np + (IF odd THEN 1 ELSE 0)
    /\ fmted' = 0
    /\ UNCHANGED <<wk, deferred, bsErr, notFan>>

\* CopyToAllNodes(servers, clients, buildState, srcDst...), lines 43-49
CopyToAllNodesEnter(srv, np, odd) ==
    /\ IF odd THEN Enter("CopyToAllNodes", srv, np, "returned", "args")
              ELSE Enter("CopyToAllNodes", srv, np, "outer", "none")
    /\ UNCHANGED <<wk, deferred, bsErr>>

CopyToAllNodes(srv, np, odd) ==
    /\ bpc = "idle"
    /\ mpc = "idle"
    /\ Len(srv) * np <= MaxFanWork
    /\ SumIps(srv) * np <= MaxFanWork
    /\ CopyToAllNodesEnter(srv, np, odd)
    /\ nArgs' = 2 * np + (IF odd THEN 1 ELSE 0)
    /\ fmted' = 0
    /\ UNCHANGED notFan

\* CopyBytesToAllNodes(servers, clients, buildState, dataDst...), lines 92-105,
\* with len(dataDst) = n: each of the n/2 iterations names a temporary file
\* (the call returns the error of GetUUIDString), writes dataDst[2i] to it and
\* appends two elements to fmted; uuids is the number of names obtained.
\* CopyToAllNodes is then called with fmted.
CopyBytesToAllNodes(srv, n, uuids) ==
    /\ bpc = "idle"
    /\ mpc = "idle"
    /\ uuids <= n \div 2
    /\ Len(srv) * (n \div 2) <= MaxFanWork
    /\ SumIps(srv) * (n \div 2) <= MaxFanWork
    /\ nArgs' = n
    /\ fmted' = 2 * uuids
    /\ IF uuids < n \div 2
       THEN /\ Enter("CopyBytesToAllNodes", srv, n \div 2, "returned", "uuid")
            /\ UNCHANGED <<wk, deferred, bsErr>>
       ELSE CopyToAllNodesEnter(srv, fmted' \div 2, fmted' % 2 # 0)
    /\ UNCHANGED notFan

\* CopyBytesToNodeFiles(client, buildState, transfers...), lines 136-137
CopyBytesToNodeFiles(nt) ==
    /\ bpc = "idle"
    /\ mpc = "idle"
    /\ nt <= MaxFanWork
    /\ Enter("CopyBytesToNodeFiles", <<>>, nt, "inner", "none")
    /\ nArgs' = nt
    /\ fmted' = 0
    /\ UNCHANGED <<wk, deferred, bsErr, notFan>>

\* CreateConfigs(servers, clients, buildState, dest, fn), lines 155-159
CreateConfigs(srv) ==
    /\ bpc = "idle"
    /\ mpc = "idle"
    /\ Enter("CreateConfigs", srv, 0, "outer", "none")
    /\ nArgs' = 0
    /\ fmted' = 0
    /\ UNCHANGED <<wk, deferred, bsErr, notFan>>

\* the helpers whose outer loop assigns the loop variable `server`
RangesServers == {"CopyToAllNodes", "CreateConfigs", "AllNodeExecCon"}

\* the helpers whose inner loop ranges over server.Ips
RangesIps == {"CreateConfigs", "AllNodeExecCon"}

\* the helpers that acquire a unit of a semaphore before a go statement
Throttled == {"CopyToAllNodes", "AllNodeExecCon"}

\* the head of the outer loop: `for i := range clients` (line 24),
\* `for i, server := range servers` (lines 50, 160)
LoopOuter ==
    /\ mpc = "outer"
    /\ IF mi < Len(servers)
       THEN /\ mpc' = "inner"
            /\ mj' = 0
            /\ server' = IF helper \in RangesServers THEN servers[mi + 1] ELSE server
       ELSE /\ mpc' = "wait"
            /\ UNCHANGED <<mj, server>>
    /\ UNCHANGED <<helper, servers, nPairs, nArgs, fmted, mi, mnode, fsem, wk, wbase, hret, deferred,
                   bsErr, notFan>>

\* the bound of the inner loop: len(srcDst)/2 (lines 25, 51), len(transfers)
\* (line 139), len(server.Ips) (line 161)
InnerBound == IF helper \in RangesIps THEN server ELSE nPairs

\* the inner loop ends
LoopInnerExit ==
    /\ mpc = "inner"
    /\ mj >= InnerBound
    /\ IF helper = "CopyBytesToNodeFiles"
       THEN mpc' = "wait" /\ mi' = mi
       ELSE mpc' = "outer" /\ mi' = mi + 1
    /\ UNCHANGED <<helper, servers, nPairs, nArgs, fmted, mj, mnode, server, fsem, wk, wbase, hret,
                   deferred, bsErr, notFan>>

\* a semaphore that never blocks
FanSemNoLimit(s) == TRUE

\* sem.Acquire(ctx, 1) on a semaphore of weight conf.ThreadLimit (lines 52, 69)
FanSemMayAcquire(s) == s < ThreadLimit

\* a counter that is not incremented
NodeNotIncremented(n) == n

\* node++ (line 179)
NextNode(n) == n + 1

\* one iteration of an inner loop that starts the goroutines ws
Go(h, ws) ==
    /\ helper = h
    /\ mpc = "inner"
    /\ mj < InnerBound
    /\ wk' = wk \o ws
    /\ mj' = mj + 1
    /\ UNCHANGED <<helper, servers, nPairs, nArgs, fmted, mpc, mi, server, wbase, hret, deferred,
                   bsErr, notFan>>

\* CopyAllToServers, lines 26-36
CopyAllToServersGo ==
    /\ Go("CopyAllToServers", <<Worker("scpServer", mi, mj, 0, 0)>>)
    /\ UNCHANGED <<mnode, fsem>>

\* CopyToAllNodes, lines 52-82: the scp goroutine and the goroutine that waits
\* for it, both holding a pointer to the loop variable `server`
CopyToAllNodesGo ==
    /\ FanSemMayAcquire(fsem)
    /\ fsem' = fsem + 1
    /\ Go("CopyToAllNodes", <<Worker("scp", mi, mj, 0, 0), Worker("stage", mi, mj, 0, 0)>>)
    /\ UNCHANGED mnode

\* CopyBytesToNodeFiles, lines 139-150
CopyBytesToNodeFilesGo ==
    /\ Go("CopyBytesToNodeFiles", <<[Worker("transfer", 0, mj, mj, 0) EXCEPT !.pc = "singleCp"]>>)
    /\ UNCHANGED <<mnode, fsem>>

\* CreateConfigs, lines 161-180
CreateConfigsGo ==
    /\ Go("CreateConfigs", <<Worker("config", mi, mj, mj, mnode)>>)
    /\ mnode' = NextNode(mnode)
    /\ UNCHANGED fsem

\* a worker whose error is dropped
ErrorDropped(failed) == bsErr' = bsErr

\* `if err != nil { log.Println(err); buildState.ReportError(err); return }`
\* (lines 31-35, 75-79, 144-148, 166-175): the BuildState's error is sticky
ReportIf(failed) == bsErr' = (bsErr \/ failed)

\* the goroutine w moves to pc; its deferred wg.Done() runs when pc is "done"
Step(w, pc, failed) ==
    wk' = [wk EXCEPT ![w] = [@ EXCEPT !.pc = pc, !.failed = failed]]

\* the goroutines that copy with scp alone: CopyAllToServers' (lines 27-36) and
\* CopyToAllNodes' first (lines 57-62)
ScpKinds == {"scpServer", "scp"}

\* the goroutines that run SingleCp (lines 141-149, 163-178)
SingleCpKinds == {"transfer", "config"}

\* a goroutine that registers no cleanup
RemovalNotDeferred(g) == g

\* buildState.Defer(func() { ... rm dst ... }) (lines 29, 120): the goroutine
\* g has registered the removal of the remote path it is about to write
DeferRemoval(g) == [g EXCEPT !.def = TRUE]

\* buildState.Defer(...) and the call of clients[i].Scp (lines 29-30);
\* ScpAndDeferRemoval (line 60) does the same
ScpWorkerStart(w) ==
    /\ w \in DOMAIN wk
    /\ wk[w].kind \in ScpKinds
    /\ wk[w].pc = "start"
    /\ deferred' = deferred + 1
    /\ wk' = [wk EXCEPT ![w] = DeferRemoval([@ EXCEPT !.pc = "scp"])]
    /\ UNCHANGED <<helper, servers, nPairs, nArgs, fmted, mpc, mi, mj, mnode, server, fsem, wbase, hret,
                   bsErr, notFan>>

\* a goroutine that keeps its unit
FanSemKept(s) == s

\* sem.Release(1), deferred at lines 58 and 73
FanSemRelease(s) == s - 1

\* Scp returns (lines 30-35) and the deferred wg.Done() runs (line 28);
\* CopyToAllNodes' goroutine sends on rdy (line 61), a channel with room for
\* the value, and its deferred calls run last registered first: wg.Done()
\* (line 59) here, sem.Release(1) (line 58) after it
ScpWorkerDone(w) ==
    /\ w \in DOMAIN wk
    /\ wk[w].kind \in ScpKinds
    /\ wk[w].pc = "scp"
    /\ \E failed \in BOOLEAN :
        /\ ReportIf(failed)
        /\ Step(w, IF wk[w].kind = "scp" THEN "wgDone" ELSE "done", failed)
    /\ UNCHANGED <<helper, servers, nPairs, nArgs, fmted, mpc, mi, mj, mnode, server, fsem,
                   wbase, hret, deferred, notFan>>

\* the deferred sem.Release(1) of CopyToAllNodes' scp goroutine (line 58)
\* runs after its wg.Done(), and the goroutine ends
ScpWorkerRelease(w) ==
    /\ w \in DOMAIN wk
    /\ wk[w].kind = "scp"
    /\ wk[w].pc = "wgDone"
    /\ fsem' = FanSemRelease(fsem)
    /\ wk' = [wk EXCEPT ![w] = [@ EXCEPT !.pc = "done"]]
    /\ UNCHANGED <<helper, servers, nPairs, nArgs, fmted, mpc, mi, mj, mnode, server, wbase,
                   hret, deferred, bsErr, notFan>>

\* a receive that does not wait for the send
RdyNotAwaited(w) == TRUE

\* <-rdy (line 67): the channel of the iteration holds the value its scp
\* goroutine, started just before w, sends after ScpAndDeferRemoval has
\* returned (lines 60-61)
RdyReceived(w) == wk[w - 1].pc \in {"wgDone", "done"}

\* CopyToAllNodes' second goroutine receives from rdy (line 67) and evaluates
\* the range expression server.Ips (line 68) through its pointer to the loop
\* variable
StageReady(w) ==
    /\ w \in DOMAIN wk
    /\ wk[w].kind = "stage"
    /\ wk[w].pc = "start"
    /\ RdyReceived(w)
    /\ wk' = [wk EXCEPT ![w] = [@ EXCEPT !.n = server, !.k = 0,
                                         !.pc = IF server = 0 THEN "done" ELSE "range"]]
    /\ UNCHANGED <<helper, servers, nPairs, nArgs, fmted, mpc, mi, mj, mnode, server, fsem, wbase, hret,
                   deferred, bsErr, notFan>>

\* one iteration of `for k := range server.Ips` (lines 68-81)
StageGo(w) ==
    /\ w \in DOMAIN wk
    /\ wk[w].kind = "stage"
    /\ wk[w].pc = "range"
    /\ FanSemMayAcquire(fsem)
    /\ fsem' = fsem + 1
    /\ wk' = [wk EXCEPT ![w] = [@ EXCEPT !.k = @ + 1,
                                         !.pc = IF wk[w].k + 1 < wk[w].n THEN "range" ELSE "done"]]
             \o <<Worker("dockerCp", wk[w].i, wk[w].j, wk[w].k, 0)>>
    /\ UNCHANGED <<helper, servers, nPairs, nArgs, fmted, mpc, mi, mj, mnode, server, wbase, hret,
                   deferred, bsErr, notFan>>

\* the call of clients[i].DockerCp (line 74): Run returns the build's error at
\* once when Stop() is true (ssh/client.go:133-135)
DockerCpWorkerStart(w) ==
    /\ w \in DOMAIN wk
    /\ wk[w].kind = "dockerCp"
    /\ wk[w].pc = "start"
    /\ IF Stop
       THEN /\ Step(w, "done", GetError # "nil")
            /\ fsem' = FanSemRelease(fsem)
       ELSE /\ Step(w, "dockerCp", FALSE)
            /\ fsem' = fsem
    /\ UNCHANGED <<helper, servers, nPairs, nArgs, fmted, mpc, mi, mj, mnode, server, wbase, hret,
                   deferred, bsErr, notFan>>

\* DockerCp returns (lines 74-79) and the unit is released (line 73)
DockerCpWorkerDone(w) ==
    /\ w \in DOMAIN wk
    /\ wk[w].kind = "dockerCp"
    /\ wk[w].pc = "dockerCp"
    /\ \E failed \in BOOLEAN :
        /\ ReportIf(failed)
        /\ Step(w, "done", failed)
    /\ fsem' = FanSemRelease(fsem)
    /\ UNCHANGED <<helper, servers, nPairs, nArgs, fmted, mpc, mi, mj, mnode, server, wbase, hret,
                   deferred, notFan>>

\* CreateConfigs' goroutine calls fn(i, j, node) (lines 165-170)
ConfigWorkerStart(w) ==
    /\ w \in DOMAIN wk
    /\ wk[w].kind = "config"
    /\ wk[w].pc = "start"
    /\ \E failed \in BOOLEAN :
        /\ ReportIf(failed)
        /\ Step(w, IF failed THEN "done" ELSE "singleCp", failed)
    /\ UNCHANGED <<helper, servers, nPairs, nArgs, fmted, mpc, mi, mj, mnode, server, fsem, wbase, hret,
                   deferred, notFan>>

\* SingleCp, lines 108-121: the temporary file is written, its removal is
\* deferred and Scp is called
SingleCpStart(w) ==
    /\ w \in DOMAIN wk
    /\ wk[w].kind \in SingleCpKinds
    /\ wk[w].pc = "singleCp"
    /\ \E failed \in BOOLEAN :
        /\ ReportIf(failed)
        /\ wk' = [wk EXCEPT ![w] = IF failed THEN [@ EXCEPT !.pc = "done", !.failed = TRUE]
                                             ELSE DeferRemoval([@ EXCEPT !.pc = "scp"])]
        /\ deferred' = IF failed THEN deferred ELSE deferred + 1
    /\ UNCHANGED <<helper, servers, nPairs, nArgs, fmted, mpc, mi, mj, mnode, server, fsem, wbase, hret,
                   notFan>>

\* SingleCp, lines 121-127: Scp returns, and DockerCp is called when it
\* returned nil
SingleCpScpDone(w) ==
    /\ w \in DOMAIN wk
    /\ wk[w].kind \in SingleCpKinds
    /\ wk[w].pc = "scp"
    /\ \E failed \in BOOLEAN :
        /\ ReportIf(failed \/ (Stop /\ GetError # "nil"))
        /\ IF failed
           THEN Step(w, "done", TRUE)
           ELSE IF Stop THEN Step(w, "done", GetError # "nil")
                        ELSE Step(w, "dockerCp", FALSE)
    /\ UNCHANGED <<helper, servers, nPairs, nArgs, fmted, mpc, mi, mj, mnode, server, fsem, wbase, hret,
                   deferred, notFan>>

\* SingleCp, line 127: DockerCp returns, and the goroutine reports its error
SingleCpDockerCpDone(w) ==
    /\ w \in DOMAIN wk
    /\ wk[w].kind \in SingleCpKinds
    /\ wk[w].pc = "dockerCp"
    /\ \E failed \in BOOLEAN :
        /\ ReportIf(failed)
        /\ Step(w, "done", failed)
    /\ UNCHANGED <<helper, servers, nPairs, nArgs, fmted, mpc, mi, mj, mnode, server, fsem, wbase, hret,
                   deferred, notFan>>

\* a wait that does not wait
WgNoWait == TRUE

\* wg.Wait() (lines 39, 86, 151, 183): every goroutine of the call has called
\* wg.Done()
WgZero == \A w \in Mine : wk[w].pc \in {"wgDone", "done"}

\* wg.Wait() returns; the helpers without a semaphore return
\* buildState.GetError() (lines 40, 152, 184)
WgWait ==
    /\ mpc = "wait"
    /\ WgZero
    /\ IF helper \in Throttled
       THEN mpc' = "drain" /\ hret' = hret
       ELSE mpc' = "returned" /\ hret' = GetError
    /\ UNCHANGED <<helper, servers, nPairs, nArgs, fmted, mi, mj, mnode, server, fsem, wk, wbase,
                   deferred, bsErr, notFan>>

\* sem.Acquire(ctx, conf.ThreadLimit); sem.Release(conf.ThreadLimit);
\* return buildState.GetError() (lines 87-89): the Acquire waits until every
\* unit is free
SemDrain ==
    /\ mpc = "drain"
    /\ fsem = 0
    /\ mpc' = "returned"
    /\ hret' = GetError
    /\ UNCHANGED <<helper, servers, nPairs, nArgs, fmted, mi, mj, mnode, server, fsem, wk, wbase,
                   deferred, bsErr, notFan>>

\* the caller of a helper takes its result
HelperReturned ==
    /\ bpc = "idle"
    /\ mpc = "returned"
    /\ mpc' = "idle"
    /\ helper' = "none"
    /\ servers' = <<>>
    /\ nPairs' = 0
    /\ nArgs' = 0
    /\ fmted' = 0
    /\ mi' = 0
    /\ mj' = 0
    /\ mnode' = 0
    /\ server' = 0
    /\ wk' = <<>>
    /\ wbase' = 0
    /\ hret' = "none"
    /\ deferred' = 0
    /\ UNCHANGED <<fsem, bsErr, notFan>>

\* the fan-out helpers of copy.go, one call at a time
NextFanOut ==
    \/ \E srv \in ServerLists, np \in 1..MaxPairs, odd \in BOOLEAN :
        \/ CopyAllToServers(srv, np, odd)
        \/ CopyToAllNodes(srv, np, odd)
    \/ \E srv \in ServerLists, n \in 0..(2 * MaxPairs + 1), uuids \in 0..MaxPairs :
        CopyBytesToAllNodes(srv, n, uuids)
    \/ \E nt \in 1..MaxPairs : CopyBytesToNodeFiles(nt)
    \/ \E srv \in ServerLists : CreateConfigs(srv)
    \/ LoopOuter
    \/ LoopInnerExit
    \/ CopyAllToServersGo
    \/ CopyToAllNodesGo
    \/ CopyBytesToNodeFilesGo
    \/ CreateConfigsGo
    \/ \E w \in WorkerIds :
        \/ ScpWorkerStart(w)
        \/ ScpWorkerDone(w)
        \/ ScpWorkerRelease(w)
        \/ StageReady(w)
        \/ StageGo(w)
        \/ DockerCpWorkerStart(w)
        \/ DockerCpWorkerDone(w)
        \/ ConfigWorkerStart(w)
        \/ SingleCpStart(w)
        \/ SingleCpScpDone(w)
        \/ SingleCpDockerCpDone(w)
    \/ WgWait
    \/ SemDrain
    \/ HelperReturned

(***************************************************************************)
(* tendermint.Build (blockchains/tendermint/tendermint.go)                 *)
(***************************************************************************)
InitBuild ==
    /\ bpc = "idle"
    /\ peers = <<>>
    /\ sent = <<>>
    /\ progress = 0
    /\ stepCount = 0

\* a build that announces no step
NoStepsAnnounced(nodes) == 0

\* line 41: buildState.SetBuildSteps(1 + (details.Nodes * 4))
BuildSteps(nodes) == 1 + (nodes * 4)

\* Build(details, servers, clients, buildState), lines 36-45, up to the entry
\* of the first AllNodeExecCon; details.Nodes is the number of IPs of servers
Build(srv) ==
    /\ bpc = "idle"
    /\ mpc = "idle"
    /\ SumIps(srv) >= 1
    /\ bpc' = "init"
    /\ peers' = <<>>
    /\ sent' = [x \in 1..SumIps(srv) |-> <<>>]
    /\ progress' = 0
    /\ stepCount' = BuildSteps(SumIps(srv))
    /\ Enter("AllNodeExecCon", srv, 0, "outer", "none")
    /\ UNCHANGED <<nArgs, fmted, wk, deferred, bsErr, tnVars, clientVars, detVars, lifeVars, storeVars,
                   plog, restVars>>

\* AllNodeExecCon(servers, buildState, fn): one goroutine for every node, in
\* the order of (serverNum, localNodeNum), each holding a unit of a semaphore
\* of weight conf.ThreadLimit
AllNodeExecConGo ==
    /\ FanSemMayAcquire(fsem)
    /\ fsem' = fsem + 1
    /\ Go("AllNodeExecCon", <<Worker(bpc, mi, mj, mj, mnode)>>)
    /\ mnode' = NextNode(mnode)

\* the init function, lines 46-64: `tendermint init` and
\* `tendermint show_node_id` are run, and the peer is appended under mux.
\* DockerExec returns the build's error at once when Stop() is true.
InitHarvest(w) ==
    /\ w \in DOMAIN wk
    /\ wk[w].kind = "init"
    /\ wk[w].pc = "start"
    /\ \E failed \in {Stop, TRUE} :
        /\ ReportIf(failed)
        /\ Step(w, IF failed THEN "done" ELSE "cat", failed)
        /\ peers' = IF failed THEN peers ELSE Append(peers, wk[w].node)
        /\ fsem' = IF failed THEN fsem - 1 ELSE fsem
    /\ UNCHANGED <<helper, servers, nPairs, nArgs, fmted, mpc, mi, mj, mnode, server, wbase, hret,
                   deferred, bpc, sent, progress, notBuild>>

\* the init function, lines 67-114: the genesis is read (progress is
\* incremented), its validators are parsed (progress is incremented again)
InitFinish(w) ==
    /\ w \in DOMAIN wk
    /\ wk[w].kind = "init"
    /\ wk[w].pc = "cat"
    /\ \E read \in {~Stop, FALSE}, parsed \in BOOLEAN :
        /\ ReportIf(~(read /\ parsed))
        /\ LET calls == IF read THEN (IF parsed THEN 2 ELSE 1) ELSE 0
           IN  /\ wk' = [wk EXCEPT ![w] = [@ EXCEPT !.pc = "done", !.inc = calls,
                                                    !.failed = ~(read /\ parsed)]]
               /\ progress' = progress + calls
    /\ fsem' = fsem - 1
    /\ UNCHANGED <<helper, servers, nPairs, nArgs, fmted, mpc, mi, mj, mnode, server, wbase, hret,
                   deferred, bpc, peers, sent, notBuild>>

\* A Build that goes on whatever the init phase returned.
InitErrorIgnored(err) == FALSE

\* lines 116-119: if err != nil { log.Println(err); return nil, err }
InitPhaseFailed(err) == err # "nil"

\* lines 116-128: Build returns the error of the init phase; otherwise
\* CopyBytesToAllNodes (helpers/copy.go:92-105) names a temporary file, writes
\* the genesis to it and calls CopyToAllNodes with the one pair
BuildDistribute ==
    /\ bpc = "init"
    /\ mpc = "returned"
    /\ IF InitPhaseFailed(hret)
       THEN /\ bpc' = "returned"
            /\ UNCHANGED fanVars
       ELSE \E uuid \in BOOLEAN :
            IF uuid
            THEN /\ bpc' = "copy"
                 /\ nArgs' = 2
                 /\ fmted' = 2
                 /\ CopyToAllNodesEnter(servers, fmted' \div 2, fmted' % 2 # 0)
            ELSE /\ bpc' = "returned"
                 /\ hret' = "uuid"
                 /\ nArgs' = 2
                 /\ UNCHANGED <<helper, servers, nPairs, fmted, mpc, mi, mj, mnode, server,
                                fsem, wk, wbase, deferred>>
    /\ UNCHANGED <<bsErr, peers, sent, progress, notBuild>>

\* lines 125-131: Build returns the error of the distribution; otherwise it
\* enters the second AllNodeExecCon
BuildStart ==
    /\ bpc = "copy"
    /\ mpc = "returned"
    /\ IF hret # "nil"
       THEN /\ bpc' = "returned"
            /\ UNCHANGED fanVars
       ELSE /\ bpc' = "start"
            /\ Enter("AllNodeExecCon", servers, 0, "outer", "none")
            /\ nArgs' = 0
            /\ fmted' = 0
            /\ UNCHANGED <<wk, deferred>>
    /\ UNCHANGED <<bsErr, peers, sent, progress, notBuild>>

\* append(peers[:absoluteNodeNum], peers[absoluteNodeNum+1:]...), line 134:
\* peers[:n] has room for the rest, so the elements after n are moved down
\* inside the array that every goroutine shares
ShiftDown(arr, n) ==
    [x \in 1..Len(arr) |-> IF x >= n + 1 /\ x < Len(arr) THEN arr[x + 1] ELSE arr[x]]

\* the start function evaluates the append of line 134
StartShift(w) ==
    /\ w \in DOMAIN wk
    /\ wk[w].kind = "start"
    /\ wk[w].pc = "start"
    /\ wk[w].node < Len(peers)
    /\ peers' = ShiftDown(peers, wk[w].node)
    /\ Step(w, "join", FALSE)
    /\ UNCHANGED <<helper, servers, nPairs, nArgs, fmted, mpc, mi, mj, mnode, server, fsem, wbase, hret,
                   deferred, bsErr, bpc, sent, progress, notBuild>>

\* strings.Join reads the len(peers)-1 elements of the appended slice and
\* clients[serverNum].DockerExecdLog(localNodeNum, ...) is called with them
\* (lines 133-134): logSanitizeAndStore records the command in the scratchpad
\* of the BuildState under the key of the local node number
\* (ssh/client.go:219-220); then its Run returns the build's error at once
\* when Stop() is true, and the deferred IncrementBuildProgress runs (line 132)
StartJoin(w) ==
    /\ w \in DOMAIN wk
    /\ wk[w].kind = "start"
    /\ wk[w].pc = "join"
    /\ sent' = [sent EXCEPT ![wk[w].node + 1] = SubSeq(peers, 1, Len(peers) - 1)]
    /\ scratch' = ScratchSet(scratch, NodeKey(wk[w].k),
                             Command(SubSeq(peers, 1, Len(peers) - 1), wk[w].i, wk[w].k))
    /\ IF Stop
       THEN /\ wk' = [wk EXCEPT ![w] = [@ EXCEPT !.pc = "done", !.inc = @ + 1,
                                                 !.failed = GetError # "nil"]]
            /\ progress' = progress + 1
            /\ fsem' = fsem - 1
       ELSE /\ Step(w, "exec", FALSE)
            /\ UNCHANGED <<progress, fsem>>
    /\ UNCHANGED <<helper, servers, nPairs, nArgs, fmted, mpc, mi, mj, mnode, server, wbase, hret,
                   deferred, bsErr, bpc, peers, stepCount, tnVars, clients, mux, sem, ppc,
                   pverb, psess, tries, stopAtCall, ran, ret, bsAbort, panicked, detVars,
                   lifeVars, storeVars, plog, restVars>>

\* DockerExecdLog returns, progress is incremented (line 132) and
\* AllNodeExecCon reports the error
StartFinish(w) ==
    /\ w \in DOMAIN wk
    /\ wk[w].kind = "start"
    /\ wk[w].pc = "exec"
    /\ \E failed \in BOOLEAN :
        /\ ReportIf(failed)
        /\ wk' = [wk EXCEPT ![w] = [@ EXCEPT !.pc = "done", !.inc = @ + 1, !.failed = failed]]
    /\ progress' = progress + 1
    /\ fsem' = fsem - 1
    /\ UNCHANGED <<helper, servers, nPairs, nArgs, fmted, mpc, mi, mj, mnode, server, wbase, hret,
                   deferred, bpc, peers, sent, notBuild>>

\* line 136: Build returns the error of the start phase
BuildReturn ==
    /\ bpc = "start"
    /\ mpc = "returned"
    /\ bpc' = "returned"
    /\ UNCHANGED <<fanVars, bsErr, peers, sent, progress, notBuild>>

\* one tendermint build
NextBuild ==
    \/ \E srv \in ServerLists : Build(srv)
    \/ LoopOuter
    \/ LoopInnerExit
    \/ AllNodeExecConGo
    \/ CopyToAllNodesGo
    \/ \E w \in WorkerIds :
        \/ InitHarvest(w)
        \/ InitFinish(w)
        \/ ScpWorkerStart(w)
        \/ ScpWorkerDone(w)
        \/ ScpWorkerRelease(w)
        \/ StageReady(w)
        \/ StageGo(w)
        \/ DockerCpWorkerStart(w)
        \/ DockerCpWorkerDone(w)
        \/ StartShift(w)
        \/ StartJoin(w)
        \/ StartFinish(w)
    \/ WgWait
    \/ SemDrain
    \/ BuildDistribute
    \/ BuildStart
    \/ BuildReturn

(***************************************************************************)
(* BuildState: stage, progress, error, scratchpad and deferred cleanups    *)
(***************************************************************************)
Stages == {"init", "copy", "start"}

InitBuildState ==
    /\ bsStage = "none"
    /\ reports = 0
    /\ cleanups = <<>>
    /\ dpc = "none"
    /\ pending = <<>>
    /\ invoked = <<>>

\* BuildState.ReportError(e): the error is set and the build is stopped; a
\* later report overwrites the error with another error.
ReportErrorCall ==
    /\ reports < MaxReports
    /\ reports' = reports + 1
    /\ bsErr' = TRUE
    /\ UNCHANGED <<bsAbort, scratch, deferred, progress, bsStage, cleanups, dpc, pending,
                   invoked, notBuildState>>

\* BuildState.Set(k, v): the scratchpad holds a value under k.
Set ==
    /\ \E k \in LocalNodes, v \in Commands : scratch' = ScratchSet(scratch, k, v)
    /\ UNCHANGED <<bsErr, bsAbort, deferred, progress, lifeVars, notBuildState>>

\* BuildState.SetBuildStage(s)
SetBuildStage ==
    /\ \E s \in Stages \ {bsStage} : bsStage' = s
    /\ UNCHANGED <<bsErr, bsAbort, scratch, deferred, progress, reports, cleanups, dpc,
                   pending, invoked, notBuildState>>

\* An IncrementBuildProgress that forgets the error.
IncrementClearsError ==
    /\ progress < MaxSteps
    /\ progress' = progress + 1
    /\ bsErr' = FALSE
    /\ UNCHANGED <<bsAbort, scratch, deferred, lifeVars, notBuildState>>

\* BuildState.IncrementBuildProgress(): one more step is done, up to the
\* number of steps announced.
IncrementBuildProgress ==
    /\ progress < MaxSteps
    /\ progress' = progress + 1
    /\ UNCHANGED <<bsErr, bsAbort, scratch, deferred, lifeVars, notBuildState>>

\* BuildState.Defer(fn): fn joins the end of the list of cleanups.  The
\* cleanups are numbered in the order of their registration.
Defer ==
    /\ dpc = "none"
    /\ Len(cleanups) < MaxDefers
    /\ cleanups' = Append(cleanups, Len(cleanups) + 1)
    /\ deferred' = deferred + 1
    /\ UNCHANGED <<bsErr, bsAbort, scratch, progress, bsStage, reports, dpc, pending,
                   invoked, notBuildState>>

\* A DoneBuilding that runs the cleanups in the order of their registration.
FirstRegistered(p) == 1

\* DoneBuilding runs the cleanups in LIFO order: the next one to run is the
\* last of those left.
NextCleanup(p) == Len(p)

\* the sequence p without its element i
Without(p, i) == SubSeq(p, 1, i - 1) \o SubSeq(p, i + 1, Len(p))

\* BuildState.DoneBuilding(), first part: the build is marked complete and
\* the list of cleanups is captured.
DoneBuilding ==
    /\ dpc = "none"
    /\ dpc' = "cleaning"
    /\ pending' = cleanups
    /\ UNCHANGED <<bsStage, reports, cleanups, invoked>>

\* DoneBuilding called on its own
DoneBuildingCall ==
    /\ DoneBuilding
    /\ UNCHANGED <<bsErr, bsAbort, scratch, deferred, progress, notBuildState>>

\* DoneBuilding, the cleanups: one cleanup runs at a time, outside the lock.
DoneBuildingInvoke ==
    /\ dpc = "cleaning"
    /\ pending # <<>>
    /\ invoked' = Append(invoked, pending[NextCleanup(pending)])
    /\ pending' = Without(pending, NextCleanup(pending))
    /\ UNCHANGED <<bsErr, bsAbort, scratch, deferred, progress, bsStage, reports, cleanups,
                   dpc, notBuildState>>

\* DoneBuilding, last part: the goroutines waiting on completion are released
\* and DoneBuilding returns.
DoneBuildingRelease ==
    /\ dpc = "cleaning"
    /\ pending = <<>>
    /\ dpc' = "done"
    /\ UNCHANGED <<bsErr, bsAbort, scratch, deferred, progress, bsStage, reports, cleanups,
                   pending, invoked, notBuildState>>

\* the operations of one BuildState, in any order; the values stored with Set
\* are empty commands
NextBuildState ==
    \/ ReportErrorCall
    \/ Set /\ \A e \in scratch' : e[2] = <<>>
    \/ SetBuildStage
    \/ IncrementBuildProgress
    \/ Defer
    \/ DoneBuildingCall
    \/ DoneBuildingInvoke
    \/ DoneBuildingRelease

(***************************************************************************)
(* TestNet: the end of a build, the readers and the database               *)
(***************************************************************************)
NoSnapshot == [written |-> FALSE, Nodes |-> <<>>, NewlyBuiltNodes |-> <<>>]

\* the labels a family's Build may return
LabelNames == {"a", "b"}

\* no StoreNodes in progress
NoStoring == [labels |-> NilSlice, nodes |-> <<>>, rows |-> <<>>, failed |-> FALSE, ret |-> "none"]

InitStore ==
    /\ stored = NoSnapshot
    /\ storing = [c \in Callers |-> NoStoring]

\* FinishedBuilding, line 177: tn.BuildState.DoneBuilding() is called.  No
\* lock of the TestNet is taken.
FinishedBuildingCall(c) ==
    /\ tpc[c] = "idle"
    /\ DoneBuilding
    /\ tpc' = [tpc EXCEPT ![c] = "doneBuilding"]
    /\ UNCHANGED <<tnMux, Nodes, NewlyBuiltNodes, storeVars, notFinish>>

\* line 178: tn.NewlyBuiltNodes = []db.Node{}, once DoneBuilding has
\* returned.  The write is not synchronised with AddNode's line 114; when an
\* AddNode stands before its append, that append may have read the slice
\* before this write and store its result after it, which undoes the clearing.
FinishedBuildingClear(c) ==
    /\ tpc[c] = "doneBuilding"
    /\ dpc = "done"
    /\ \/ /\ NewlyBuiltNodes' = <<>>
          /\ tpc' = [tpc EXCEPT ![c] = "cleared"]
       \/ \E a \in Callers :
             /\ tpc[a] = "assigned"
             /\ NewlyBuiltNodes' = Append(NewlyBuiltNodes, tnode[a])
             /\ tpc' = [tpc EXCEPT ![c] = "cleared", ![a] = "appendedNew"]
    /\ UNCHANGED <<tnMux, Nodes, lifeVars, storeVars, notFinish>>

\* Store, lines 244-246: db.SetMeta("testnet_"+tn.TestNetID, *tn) writes a
\* copy of the TestNet as it is when Store runs.
Snapshot == [written |-> TRUE, Nodes |-> Nodes, NewlyBuiltNodes |-> NewlyBuiltNodes]

\* FinishedBuilding, line 179: tn.Store(), and the return.
FinishedBuildingStore(c) ==
    /\ tpc[c] = "cleared"
    /\ stored' = Snapshot
    /\ tpc' = [tpc EXCEPT ![c] = "idle"]
    /\ UNCHANGED <<tnMux, Nodes, NewlyBuiltNodes, storing, lifeVars, notFinish>>

\* sync.RWMutex.RLock: granted when nobody writes.
MuxReadable(m) == m.w = 0

\* PreOrderNodes, line 213 (pc "preOrderNodes") and PreOrderNewNodes, line 229
\* (pc "preOrderNewNodes"): tn.mux.RLock()
PreOrderRLock(c, pc) ==
    /\ tpc[c] = "idle"
    /\ MuxReadable(tnMux)
    /\ tnMux' = [tnMux EXCEPT !.r = @ \cup {c}]
    /\ tpc' = [tpc EXCEPT ![c] = pc]
    /\ UNCHANGED <<Nodes, NewlyBuiltNodes, lifeVars, storeVars, notFinish>>

\* lines 215-224 (and 231-240): the nodes are bucketed by server; the
\* deferred tn.mux.RUnlock() runs at the return.
PreOrderReturn(c, pc) ==
    /\ tpc[c] = pc
    /\ tnMux' = [tnMux EXCEPT !.r = @ \ {c}]
    /\ tpc' = [tpc EXCEPT ![c] = "idle"]
    /\ UNCHANGED <<Nodes, NewlyBuiltNodes, lifeVars, storeVars, notFinish>>

\* StoreNodes, line 254: the method is entered with its labels (nil, or a
\* list); no lock is taken.
StoreNodes(c) ==
    /\ tpc[c] = "idle"
    /\ NewlyBuiltNodes # <<>>
    /\ \E labels \in Slices(LabelNames) :
          storing' = [storing EXCEPT ![c] = [NoStoring EXCEPT !.labels = labels]]
    /\ tpc' = [tpc EXCEPT ![c] = "storeNodes"]
    /\ UNCHANGED <<tnMux, Nodes, NewlyBuiltNodes, stored, lifeVars, notFinish>>

\* StoreNodes, lines 256-258: the loop's copy of the node, with labels[i] as
\* its label when labels are given
Labelled(node, labels, i) ==
    [Server |-> node.Server, LocalID |-> node.LocalID, AbsoluteNum |-> node.AbsoluteNum,
     Label |-> IF labels.nil THEN "" ELSE labels.v[i]]

\* db.InsertNode, db/node.go:106-111: the row inserted, made of the columns
\* test_net, server, local_id and ip
InsertNode(node) == [server |-> node.Server, local_id |-> node.LocalID]

\* StoreNodes, lines 260-265: the error of db.InsertNode is logged, and nil
\* is returned
StoreNodesResult(failed) == "nil"

\* the iterations of the loop that run: all of them, or, with labels shorter
\* than the nodes, those before the index that is out of range
Iterations(nodes, labels) ==
    IF labels.nil \/ Len(labels.v) >= Len(nodes) THEN Len(nodes) ELSE Len(labels.v)

\* StoreNodes, lines 255-263, from iteration i on: the rows inserted, where
\* fails are the iterations whose InsertNode fails
RECURSIVE InsertAll(_, _, _, _)
InsertAll(nodes, labels, fails, i) ==
    IF i > Iterations(nodes, labels) THEN <<>>
    ELSE (IF i \in fails THEN <<>> ELSE <<InsertNode(Labelled(nodes[i], labels, i))>>)
         \o InsertAll(nodes, labels, fails, i + 1)

\* lines 255-265: every node of tn.NewlyBuiltNodes is inserted with its
\* label; the error of db.InsertNode is not looked at and nil is returned.
\* labels[i] beyond the end of labels is a run-time panic.
StoreNodesInsert(c) ==
    /\ tpc[c] = "storeNodes"
    /\ \E fails \in SUBSET (1..Len(NewlyBuiltNodes)) :
          LET labels == storing[c].labels
              n == Iterations(NewlyBuiltNodes, labels)
              failed == fails \cap (1..n) # {}
          IN  storing' = [storing EXCEPT ![c] =
                            [labels |-> labels,
                             nodes |-> NewlyBuiltNodes,
                             rows |-> InsertAll(NewlyBuiltNodes, labels, fails, 1),
                             failed |-> failed,
                             ret |-> IF n < Len(NewlyBuiltNodes) THEN "panic"
                                     ELSE StoreNodesResult(failed)]]
    /\ tpc' = [tpc EXCEPT ![c] = "storeNodesDone"]
    /\ UNCHANGED <<tnMux, Nodes, NewlyBuiltNodes, stored, lifeVars, notFinish>>

\* the caller takes StoreNodes' result
StoreNodesReturn(c) ==
    /\ tpc[c] = "storeNodesDone"
    /\ storing' = [storing EXCEPT ![c] = NoStoring]
    /\ tpc' = [tpc EXCEPT ![c] = "idle"]
    /\ UNCHANGED <<tnMux, Nodes, NewlyBuiltNodes, stored, lifeVars, notFinish>>

\* AddNode callers (MaxLockNodes calls), readers and one FinishedBuilding,
\* concurrently
NextLocking ==
    \/ NextTestNet /\ tstarted' <= MaxLockNodes
    \/ Defer
    \/ DoneBuildingInvoke
    \/ DoneBuildingRelease
    \/ \E c \in Callers :
          \/ FinishedBuildingCall(c)
          \/ FinishedBuildingClear(c)
          \/ FinishedBuildingStore(c)
          \/ \E pc \in {"preOrderNodes", "preOrderNewNodes"} :
                \/ PreOrderRLock(c, pc)
                \/ PreOrderReturn(c, pc)
          \/ StoreNodes(c) /\ storing'[c].labels = NilSlice
          \/ StoreNodesInsert(c) /\ ~storing'[c].failed
          \/ StoreNodesReturn(c)

\* one caller of StoreNodes, with every labels and every failure of the
\* database, among AddNode callers (MaxLockNodes calls)
NextStore ==
    \/ NextTestNet /\ tstarted' <= MaxLockNodes
    \/ \E c \in {1} :
          \/ StoreNodes(c)
          \/ StoreNodesInsert(c)
          \/ StoreNodesReturn(c)

(***************************************************************************)
(* The control-plane handlers (package rest).  A handler serves one        *)
(* request from its first line to its return; the request is described by  *)
(* what each of the handler's steps meets: whether the body or the node    *)
(* numbers decode, whether the testnet and the two nodes are found,        *)
(* whether the backend call succeeds.                                      *)
(***************************************************************************)
Handlers == {"handleNet", "handleNetAll", "stopNet", "addOutage", "removeOutage"}

\* a http.ResponseWriter nothing has been written to
NoResponse == [status |-> 0, body |-> <<>>]

\* no request served yet
NoRequest ==
    [handler |-> "none", decode1 |-> TRUE, decode2 |-> TRUE, lookup |-> TRUE,
     node1 |-> TRUE, node2 |-> TRUE, backend |-> TRUE]

InitRest ==
    /\ request = NoRequest
    /\ response = NoResponse

\* w.Write(text): the first write sends the header with status 200 unless a
\* status has been written; the text is added to the body
Write(w, text) ==
    [status |-> IF w.status = 0 THEN 200 ELSE w.status, body |-> Append(w.body, text)]

\* http.Error(w, err.Error(), code): WriteHeader(code), which has no effect on
\* a header already written, then the error text is added to the body
Error(w, code) ==
    [status |-> IF w.status = 0 THEN code ELSE w.status, body |-> Append(w.body, "error")]

\* handleNet, lines 14-42
handleNet ==
    /\ \E decode \in BOOLEAN, lookup \in BOOLEAN, backend \in BOOLEAN :
          /\ request' = [NoRequest EXCEPT !.handler = "handleNet", !.decode1 = decode,
                                          !.lookup = lookup, !.backend = backend]
          /\ response' = IF ~decode THEN Error(NoResponse, 400)
                         ELSE IF ~lookup THEN Error(NoResponse, 500)
                         ELSE IF ~backend THEN Error(NoResponse, 500)
                         ELSE Write(NoResponse, "Success")
    /\ UNCHANGED <<tnVars, poolVars, fanVars, buildVars, detVars, lifeVars, storeVars, plog>>

\* handleNetAll, lines 44-72: the failure of ApplyToAll is written with
\* http.Error (line 69) and the handler goes on to line 71
handleNetAll ==
    /\ \E decode \in BOOLEAN, lookup \in BOOLEAN, backend \in BOOLEAN :
          /\ request' = [NoRequest EXCEPT !.handler = "handleNetAll", !.decode1 = decode,
                                          !.lookup = lookup, !.backend = backend]
          /\ response' = IF ~decode THEN Error(NoResponse, 400)
                         ELSE IF ~lookup THEN Error(NoResponse, 500)
                         ELSE Write(IF ~backend THEN Error(NoResponse, 500) ELSE NoResponse,
                                    "Success")
    /\ UNCHANGED <<tnVars, poolVars, fanVars, buildVars, detVars, lifeVars, storeVars, plog>>

\* stopNet, lines 74-87: RemoveAll returns nothing
stopNet ==
    /\ \E lookup \in BOOLEAN :
          /\ request' = [NoRequest EXCEPT !.handler = "stopNet", !.lookup = lookup]
          /\ response' = IF ~lookup THEN Error(NoResponse, 500)
                         ELSE Write(NoResponse, "Success")
    /\ UNCHANGED <<tnVars, poolVars, fanVars, buildVars, detVars, lifeVars, storeVars, plog>>

\* addOutage, lines 124-169
addOutage ==
    /\ \E atoi1 \in BOOLEAN, atoi2 \in BOOLEAN, lookup \in BOOLEAN,
          n1 \in BOOLEAN, n2 \in BOOLEAN, backend \in BOOLEAN :
          /\ request' = [handler |-> "addOutage", decode1 |-> atoi1, decode2 |-> atoi2,
                         lookup |-> lookup, node1 |-> n1, node2 |-> n2,
                         backend |-> backend]
          /\ response' = IF ~atoi1 THEN Error(NoResponse, 400)
                         ELSE IF ~atoi2 THEN Error(NoResponse, 400)
                         ELSE IF ~lookup THEN Error(NoResponse, 404)
                         ELSE IF ~n1 THEN Error(NoResponse, 404)
                         ELSE IF ~n2 THEN Error(NoResponse, 404)
                         ELSE IF ~backend THEN Error(NoResponse, 500)
                         ELSE Write(NoResponse, "Success")
    /\ UNCHANGED <<tnVars, poolVars, fanVars, buildVars, detVars, lifeVars, storeVars, plog>>

\* removeOutage, lines 171-216: addOutage with RemoveOutage as the backend call
removeOutage ==
    /\ \E atoi1 \in BOOLEAN, atoi2 \in BOOLEAN, lookup \in BOOLEAN,
          n1 \in BOOLEAN, n2 \in BOOLEAN, backend \in BOOLEAN :
          /\ request' = [handler |-> "removeOutage", decode1 |-> atoi1, decode2 |-> atoi2,
                         lookup |-> lookup, node1 |-> n1, node2 |-> n2,
                         backend |-> backend]
          /\ response' = IF ~atoi1 THEN Error(NoResponse, 400)
                         ELSE IF ~atoi2 THEN Error(NoResponse, 400)
                         ELSE IF ~lookup THEN Error(NoResponse, 404)
                         ELSE IF ~n1 THEN Error(NoResponse, 404)
                         ELSE IF ~n2 THEN Error(NoResponse, 404)
                         ELSE IF ~backend THEN Error(NoResponse, 500)
                         ELSE Write(NoResponse, "Success")
    /\ UNCHANGED <<tnVars, poolVars, fanVars, buildVars, detVars, lifeVars, storeVars, plog>>

NextRest ==
    \/ handleNet
    \/ handleNetAll
    \/ stopNet
    \/ addOutage
    \/ removeOutage

(***************************************************************************)
(* Specifications                                                          *)
(***************************************************************************)
Init == InitTestNet /\ InitPool /\ InitFan /\ InitBuild /\ InitDetails /\ InitBuildState /\ InitStore /\ InitLog /\ InitRest

SpecTestNet == Init /\ [][NextTestNet]_vars

SpecDetails == Init /\ [][NextDetails]_vars

SpecPool == Init /\ [][NextPool]_vars

\* the scheduler runs every goroutine that can take a step, a blocked Acquire
\* or Lock is granted when it can be again and again, every dial returns and
\* every session is closed
FairPool ==
    \A p \in Procs :
        /\ SF_vars(GetSessionAcquire(p))
        /\ WF_vars(GetSessionDial(p))
        /\ SF_vars(GetSessionAppend(p))
        /\ WF_vars(RunCheck(p))
        /\ WF_vars(RunFinish(p))
        /\ WF_vars(ScpCheck(p))
        /\ WF_vars(ScpFinish(p))
        /\ WF_vars(Return(p))

SpecPoolFair == SpecPool /\ FairPool

SpecVerbs == Init /\ [][NextVerbs]_vars

SpecLog == Init /\ [][NextLog]_vars

SpecFanOut == Init /\ [][NextFanOut]_vars

\* a step of the helper that is running: of its main goroutine or of one of
\* the goroutines it started
FanOutStep ==
    \/ LoopOuter
    \/ LoopInnerExit
    \/ CopyAllToServersGo
    \/ CopyToAllNodesGo
    \/ CopyBytesToNodeFilesGo
    \/ CreateConfigsGo
    \/ \E w \in WorkerIds :
        \/ ScpWorkerStart(w)
        \/ ScpWorkerDone(w)
        \/ ScpWorkerRelease(w)
        \/ StageReady(w)
        \/ StageGo(w)
        \/ DockerCpWorkerStart(w)
        \/ DockerCpWorkerDone(w)
        \/ ConfigWorkerStart(w)
        \/ SingleCpStart(w)
        \/ SingleCpScpDone(w)
        \/ SingleCpDockerCpDone(w)
    \/ WgWait
    \/ SemDrain

\* the scheduler runs a goroutine that can run, and every scp and docker-cp
\* returns
FairFanOut == WF_vars(FanOutStep)

SpecFanOutFair == SpecFanOut /\ FairFanOut

SpecBuild == Init /\ [][NextBuild]_vars

SpecBuildState == Init /\ [][NextBuildState]_vars

SpecLocking == Init /\ [][NextLocking]_vars

SpecRest == Init /\ [][NextRest]_vars

SpecStore == Init /\ [][NextStore]_vars

(***************************************************************************)
(* C1: the absoluteNum values AddNode has returned are pairwise distinct   *)
(* and are exactly 0..N-1 after N returns, and once no AddNode is in       *)
(* progress the node stored at position i of Nodes has absoluteNum i       *)
(* (positions counted from 0).                                             *)
(***************************************************************************)
C1_AbsoluteNumsContiguous ==
    /\ Cardinality(Range(returned)) = Len(returned)
    /\ Range(returned) = 0..(Len(returned) - 1)
    /\ \A i \in 1..Len(Nodes) : Nodes[i].AbsoluteNum = i - 1
    /\ (\A c \in Callers : tpc[c] = "idle") => Len(Nodes) = Len(returned)

\* several AddNode calls have returned and a further one is about to return
C1_Witness ==
    /\ Len(returned) >= 3
    /\ \E c \in Callers : tpc[c] = "appended"

(***************************************************************************)
(* C4: for one ssh Client, under any number of concurrent Run and Scp      *)
(* callers, the sessions obtained from getSession and not yet closed are   *)
(* at most maxConnections.                                                 *)
(***************************************************************************)
C4_LiveSessionsBounded ==
    Cardinality({p \in Procs : psess[p]}) <= maxConnections

\* maxConnections sessions are open and a further caller waits for a unit
C4_Witness ==
    /\ Cardinality({p \in Procs : psess[p]}) = maxConnections
    /\ \E p \in Procs : ppc[p] = "acquire"

(***************************************************************************)
(* C9: a Run called while Stop() is true executes no command on the        *)
(* remote host, returns the build's error (nil only when the build was     *)
(* aborted with no error reported) and leaves no session open.             *)
(***************************************************************************)
C9_StoppedRunReturnsError ==
    \A p \in Procs :
        (pverb[p] = "Run" /\ stopAtCall[p]) =>
            /\ ppc[p] # "panic"
            /\ ~ran[p]
            /\ ppc[p] \in {"returned", "attempted"} =>
                  /\ ret[p] \in {"build", "nil"}
                  /\ ret[p] = "nil" => bsAbort
                  /\ ~psess[p]

(***************************************************************************)
(* C10 as claimed: once Stop() is true, no Run and no Scp that starts      *)
(* afterwards launches its remote work.                                    *)
(***************************************************************************)
C10_NoRemoteWorkAfterStop ==
    \A p \in Procs : stopAtCall[p] => ~ran[p]

(***************************************************************************)
(* C10 as amended: once Stop() is true, no Run that starts afterwards, and *)
(* so no verb built on Run (DockerExec, DockerCp, KeepTryRun,              *)
(* DockerExecdLog), executes its command on the remote host.               *)
(***************************************************************************)
C10_NoRunAfterStop ==
    \A p \in Procs : (pverb[p] = "Run" /\ stopAtCall[p]) => (~ran[p] /\ ppc[p] # "exec")

\* a Run called after Stop() has got its session and returned without executing
C10_Witness ==
    \E p \in Procs :
        /\ pverb[p] = "Run"
        /\ stopAtCall[p]
        /\ ppc[p] = "returned"
        /\ ret[p] = "build"
        /\ ~ran[p]

\* the rank of the pair (i, j) in the lexicographic order of CreateConfigs' loops
Rank(i, j) == SumIps(SubSeq(servers, 1, i)) + j

(***************************************************************************)
(* C5: for servers with any numbers of IPs, CreateConfigs invokes fn       *)
(* exactly once for every pair (serverNum, localNodeNum) with localNodeNum *)
(* below len(server.Ips), and the absoluteNodeNum it passes is the rank of *)
(* the pair in lexicographic order, counted from 0; so the absolute        *)
(* numbers are distinct and cover 0..total-1.                              *)
(***************************************************************************)
C5_ConfigsLexicographic ==
    helper = "CreateConfigs" =>
        /\ \A w \in Mine :
            /\ wk[w].kind = "config"
            /\ wk[w].i < Len(servers)
            /\ wk[w].j < servers[wk[w].i + 1]
            /\ wk[w].node = Rank(wk[w].i, wk[w].j)
        /\ \A v, w \in Mine : v # w => wk[v].node # wk[w].node
        /\ mpc = "returned" =>
            /\ \A i \in 0..(Len(servers) - 1) : \A j \in 0..(servers[i + 1] - 1) :
                Cardinality({w \in Mine : wk[w].i = i /\ wk[w].j = j
                                            /\ wk[w].pc = "done"}) = 1
            /\ {wk[w].node : w \in Mine} = 0..(SumIps(servers) - 1)

\* CreateConfigs has returned for two servers with different numbers of IPs
C5_Witness ==
    /\ helper = "CreateConfigs"
    /\ mpc = "returned"
    /\ Len(servers) = 2
    /\ servers[1] > servers[2]
    /\ servers[2] > 0
    /\ Len(wk) = 3

(***************************************************************************)
(* C6: when CopyToAllNodes returns, docker-cp has been invoked exactly     *)
(* once for each triple (server i, pair j, local node k) with k below      *)
(* len(servers[i].Ips), and for no other triple.                           *)
(***************************************************************************)
C6_DockerCpOncePerTriple ==
    (helper = "CopyToAllNodes" /\ mpc = "returned" /\ hret # "args") =>
        /\ \A i \in 0..(Len(servers) - 1) : \A j \in 0..(nPairs - 1) :
            \A k \in 0..(servers[i + 1] - 1) :
                Cardinality({w \in Mine : /\ wk[w].kind = "dockerCp"
                                          /\ wk[w].i = i
                                          /\ wk[w].j = j
                                          /\ wk[w].k = k}) = 1
        /\ \A w \in Mine : wk[w].kind = "dockerCp" => wk[w].k < servers[wk[w].i + 1]

\* the goroutines that have an scp or a docker-cp outstanding
Outstanding == {w \in DOMAIN wk : wk[w].pc \in {"scp", "dockerCp"}}

(***************************************************************************)
(* C7 as claimed: at every moment at most ThreadLimit goroutines of the    *)
(* fan-out helpers have an scp or a docker-cp outstanding, whatever the    *)
(* helper.                                                                 *)
(***************************************************************************)
C7_OutstandingBounded == Cardinality(Outstanding) <= ThreadLimit

(***************************************************************************)
(* C7 as amended: at every moment of one call to CopyToAllNodes, at most   *)
(* ThreadLimit of its goroutines have an scp or a docker-cp outstanding.   *)
(***************************************************************************)
C7_CopyToAllNodesBounded ==
    helper = "CopyToAllNodes" => Cardinality(Outstanding) <= ThreadLimit

\* ThreadLimit copies of a CopyToAllNodes are outstanding and a further
\* goroutine waits for a unit of the semaphore
C7_Witness ==
    /\ helper = "CopyToAllNodes"
    /\ Cardinality(Outstanding) = ThreadLimit
    /\ \E w \in Mine : wk[w].kind = "stage" /\ wk[w].pc = "range"

\* the goroutines the main loop of a helper starts
StartedByLoop ==
    CASE helper = "CopyAllToServers" -> Len(servers) * nPairs
      [] helper = "CopyToAllNodes" -> 2 * Len(servers) * nPairs
      [] helper = "CopyBytesToNodeFiles" -> nPairs
      [] helper = "CreateConfigs" -> SumIps(servers)
      [] OTHER -> 0

CopyKinds == {"scp", "stage", "dockerCp"}

(***************************************************************************)
(* C2: in the start phase of Build, the peer list passed to the daemon of  *)
(* the node with absolute number i holds the harvested entry of every      *)
(* other node exactly once and not the entry of node i.                    *)
(***************************************************************************)
C2_PeerListExcludesSelf ==
    \A w \in DOMAIN wk :
        (wk[w].kind = "start" /\ wk[w].pc \in {"exec", "done"}) =>
            LET list == sent[wk[w].node + 1]
                others == (0..(SumIps(servers) - 1)) \ {wk[w].node}
            IN  /\ Len(list) = Cardinality(others)
                /\ Range(list) = others

RECURSIVE SumNodes(_)
SumNodes(ds) == IF ds = <<>> THEN 0 ELSE ds[1].Nodes + SumNodes(Tail(ds))

FilledTo(l, n, fill) ==
    IF Len(l) < n THEN l \o [i \in 1..(n - Len(l)) |-> fill] ELSE l

\* a list of maps with every nil map read as the empty map
AsMaps(l) == [i \in 1..Len(l) |-> IF l[i] = NilMap THEN {} ELSE l[i]]

\* the merge step of an AddDetails(dd) whose files and images are not empty
MergesFilesAndImages(c) ==
    /\ tpc[c] = "detailsAppended"
    /\ tpc'[c] = "detailsMerged"
    /\ Len(tdd[c].Files.v) > 0
    /\ Len(tdd[c].Images.v) > 0

(***************************************************************************)
(* C12.  After AddDetails(dd) with non-empty dd.files and dd.images,       *)
(* combinedDetails.files is the previous combined files, padded with empty *)
(* maps up to the previous node count, followed by dd.files, and           *)
(* combinedDetails.images is the previous combined images, padded with the *)
(* previous first image up to the previous node count, followed by         *)
(* dd.images.                                                              *)
(***************************************************************************)
C12_MergePadsAndAppends ==
    [][\A c \in Callers :
          MergesFilesAndImages(c) =>
              /\ AsMaps(CombinedDetails'.Files.v)
                    = FilledTo(AsMaps(CombinedDetails.Files.v), CombinedDetails.Nodes, {})
                          \o tdd[c].Files.v
              /\ CombinedDetails'.Images.v
                    = FilledTo(CombinedDetails.Images.v, CombinedDetails.Nodes,
                               FirstImage(CombinedDetails.Images))
                          \o tdd[c].Images.v]_vars

\* every deployment merged so far carries one files entry and one image per node
OneEntryPerNode ==
    \A i \in 1..Len(Details) :
        /\ Len(Details[i].Files.v) = Details[i].Nodes
        /\ Len(Details[i].Images.v) = Details[i].Nodes

(***************************************************************************)
(* C13.  After merging deployments with node counts n1..nk (the first      *)
(* through NewTestNet, the rest through AddDetails), combinedDetails.files *)
(* has length n1 + ... + nk whenever files is present in at least one      *)
(* deployment, and likewise combinedDetails.images.  The claim is stated   *)
(* here for the deployments on which the lengths can add up at all: those  *)
(* that carry one files entry and one image for each of their nodes.       *)
(***************************************************************************)
C13_ListsAsLongAsNodes ==
    (/\ \A c \in Callers : tpc[c] = "idle"
     /\ Details # <<>>
     /\ OneEntryPerNode)
        => /\ Len(CombinedDetails.Files.v) = SumNodes(Details)
           /\ Len(CombinedDetails.Images.v) = SumNodes(Details)

\* the merge step of an AddDetails of caller c
Merges(c) == tpc[c] = "detailsAppended" /\ tpc'[c] = "detailsMerged"

(***************************************************************************)
(* C14.  AddDetails(dd) with dd.files empty or missing leaves              *)
(* combinedDetails.files unchanged, and with dd.images empty or missing    *)
(* leaves combinedDetails.images unchanged.                                *)
(***************************************************************************)
C14_EmptyFieldsLeaveCombined ==
    [][\A c \in Callers :
          Merges(c) =>
              /\ (tdd[c].Files.v = <<>> => CombinedDetails'.Files.v = CombinedDetails.Files.v)
              /\ (tdd[c].Images.v = <<>> => CombinedDetails'.Images.v = CombinedDetails.Images.v)]_vars

\* the caller is about to write nodes, newlyBuiltNodes, details or combinedDetails
Writes(c) ==
    \/ tpc[c] \in {"assigned", "appendedNew", "detailsLocked", "detailsAppended"}
    \/ tpc[c] = "doneBuilding" /\ dpc = "done"

\* the caller is about to read them
Reads(c) == tpc[c] \in {"preOrderNodes", "preOrderNewNodes", "storeNodes", "cleared"}

(***************************************************************************)
(* C15.  Every TestNet method that writes nodes, newlyBuiltNodes, details  *)
(* or combinedDetails (AddNode, AddDetails, FinishedBuilding) holds the    *)
(* write lock for the whole write, and every method that reads them        *)
(* (PreOrderNodes, PreOrderNewNodes, StoreNodes, Store) holds at least the *)
(* read lock; so a FinishedBuilding never clears newlyBuiltNodes while an  *)
(* AddNode stands before its append.                                       *)
(***************************************************************************)
C15_AccessesHoldLock ==
    \A c \in Callers :
        /\ Writes(c) => tnMux.w = c
        /\ Reads(c) => (c \in tnMux.r \/ tnMux.w = c)

\* the steps of FinishedBuilding of caller c
Clears(c) == tpc[c] = "doneBuilding" /\ tpc'[c] = "cleared"

Stores(c) == tpc[c] = "cleared" /\ tpc'[c] = "idle"

(***************************************************************************)
(* C16.  FinishedBuilding first completes BuildState.DoneBuilding (the     *)
(* deferred cleanups have run, the waiters are released), then empties     *)
(* newlyBuiltNodes, then writes the snapshot; the snapshot written has an  *)
(* empty newlyBuiltNodes and the full nodes list, and FinishedBuilding     *)
(* leaves nodes unchanged.                                                 *)
(***************************************************************************)
C16_FinishedBuildingOrder ==
    [][\A c \in Callers :
          /\ Clears(c) =>
                /\ dpc = "done"
                /\ Len(invoked) = Len(cleanups)
                /\ Nodes' = Nodes
          /\ Stores(c) =>
                /\ stored'.NewlyBuiltNodes = <<>>
                /\ stored'.Nodes = Nodes
                /\ Nodes' = Nodes]_vars

(***************************************************************************)
(* C17.  After ReportError(e), in every later state Stop() returns true    *)
(* and GetError() returns a non-nil error, whatever further operations     *)
(* (ReportError, Set, Defer, SetBuildStage, IncrementBuildProgress) are    *)
(* applied to the BuildState: the error is never cleared.                  *)
(***************************************************************************)
C17_ErrorIsSticky ==
    reports > 0 => (Stop /\ GetError # "nil")

\* every operation has been applied and ReportError has been called again
C17_Witness ==
    /\ reports = MaxReports
    /\ progress = MaxSteps
    /\ scratch # {}
    /\ cleanups # <<>>
    /\ bsStage \in Stages
    /\ Stop
    /\ GetError # "nil"

\* a sequence in the opposite order
Reverse(q) == [i \in 1..Len(q) |-> q[Len(q) + 1 - i]]

(***************************************************************************)
(* C18.  For any sequence Defer(f1), ..., Defer(fn) followed by            *)
(* DoneBuilding(), the cleanups are invoked serially in the order          *)
(* fn, ..., f1, each exactly once, whether or not an error was reported:   *)
(* while DoneBuilding runs, the cleanups invoked are the last registered   *)
(* ones, latest first, and when it has returned they are all of them.      *)
(***************************************************************************)
C18_CleanupsRunLIFO ==
    /\ dpc = "none" => invoked = <<>>
    /\ dpc # "none" =>
          invoked = Reverse(SubSeq(cleanups, Len(pending) + 1, Len(cleanups)))
    /\ dpc = "done" => invoked = Reverse(cleanups)

\* three cleanups have run after an error was reported
C18_Witness ==
    /\ dpc = "done"
    /\ GetError # "nil"
    /\ cleanups = <<1, 2, 3>>
    /\ invoked = <<3, 2, 1>>

\* the init worker of some node has failed
InitWorkerFailed == \E w \in DOMAIN wk : wk[w].kind = "init" /\ wk[w].failed

EveryQuoteEscaped(command) ==
    \A i \in 1..Len(command) :
        command[i] = "'" => (i > 1 /\ command[i - 1] = "\\")

\* the step in which goroutine p calls DockerExecdLog
LogCalled(p) == ~plog[p].on /\ plog'[p].on

\* a DockerExecdLog that failed the check: dead before any session, nothing run
FailedBeforeSession(p) == ppc[p] = "panic" /\ ~psess[p] /\ ~ran[p]

C21_KeepTryRunRetries ==
    \A p \in Procs :
        tries[p] > 0 =>
            /\ tries[p] <= maxRunAttempts
            /\ ppc[p] # "panic"
            /\ ppc[p] = "returned" =>
                  \/ ret[p] = "nil"
                  \/ tries[p] = maxRunAttempts /\ ret[p] \in {"build", "cmd", "dial"}


\* every step of the request served has succeeded
AllSucceeded ==
    /\ request.decode1 /\ request.decode2
    /\ request.lookup /\ request.node1 /\ request.node2
    /\ request.backend

(***************************************************************************)
(* C22.  Every control-plane handler (handleNet, handleNetAll, stopNet,    *)
(* addOutage, removeOutage) produces exactly one outcome per request: one  *)
(* write to the response; the body "Success" is written if and only if     *)
(* decoding, lookup and the backend call all succeeded; a failing backend  *)
(* call yields status 500 and no "Success" in the body.                    *)
(***************************************************************************)
C22_OneOutcomePerRequest ==
    request.handler \in Handlers =>
        /\ Len(response.body) = 1
        /\ ("Success" \in Range(response.body)) <=> AllSucceeded
        /\ (AllSucceeded => response.status = 200)
        /\ (~request.backend /\ [request EXCEPT !.backend = TRUE] = [NoRequest EXCEPT !.handler = request.handler])
              => (response.status = 500 /\ "Success" \notin Range(response.body))


\* the goroutines of the current call that run SingleCp
SingleCps == {w \in Mine : wk[w].kind \in SingleCpKinds}

(***************************************************************************)
(* C23.  For every client and every (src, dst) pair, CopyAllToServers      *)
(* performs exactly one scp of src to dst and registers exactly one        *)
(* cleanup that removes dst on that client: one goroutine for each client  *)
(* and pair, whose cleanup is registered no later than its scp starts,     *)
(* also when the scp fails.  SingleCp does the same for its staging path:  *)
(* its cleanup is registered whenever its scp has started.                 *)
(***************************************************************************)
C23_ScpHasCleanup ==
    /\ \A w \in Mine :
          (wk[w].kind = "scpServer" /\ wk[w].pc \in {"scp", "done"}) => wk[w].def
    /\ \A w \in SingleCps :
          /\ wk[w].pc \in {"scp", "dockerCp"} => wk[w].def
          /\ (wk[w].pc = "done" /\ ~wk[w].failed) => wk[w].def
    /\ (helper = "CopyAllToServers" /\ mpc = "returned" /\ hret # "args") =>
          /\ \A i \in 0..(Len(servers) - 1), j \in 0..(nPairs - 1) :
                Cardinality({w \in Mine : wk[w].i = i /\ wk[w].j = j
                                          /\ wk[w].pc = "done" /\ wk[w].def}) = 1
          /\ Len(wk) - wbase = Len(servers) * nPairs
          /\ deferred = Len(servers) * nPairs
    /\ (helper = "CopyBytesToNodeFiles" /\ mpc = "returned") =>
          deferred = Cardinality({w \in SingleCps : wk[w].def})

\* CopyAllToServers has returned after two clients have each been sent a
\* file, one of the two copies having failed
C23_Witness ==
    /\ helper = "CopyAllToServers"
    /\ mpc = "returned"
    /\ Len(servers) = 2
    /\ \E w \in Mine : wk[w].failed /\ wk[w].def
    /\ \E w \in Mine : ~wk[w].failed /\ wk[w].def


(***************************************************************************)
(* C24.  The number of connections cached in one ssh Client never exceeds  *)
(* maxConnections: after NewClient and after any sequence of getSession    *)
(* calls, also those that find every cached connection refusing a session  *)
(* and append a freshly dialed one.                                        *)
(***************************************************************************)
C24_CacheBounded == clients <= maxConnections


\* no AddDetails is between its append and its assignment of LDD
NoDetailsPending == \A c \in Callers : tpc[c] # "detailsAppended"

(***************************************************************************)
(* C25.  After NewTestNet and after every AddDetails, LDD designates the   *)
(* last element of Details itself and not a copy: it has the value of      *)
(* that element and is its address, so that a change made through either   *)
(* is seen through the other.                                              *)
(***************************************************************************)
C25_LDDIsLastElement ==
    (Details # <<>> /\ NoDetailsPending) =>
        /\ LDD.at # "nil"
        /\ (IF LDD.at = "Details" THEN Details[LDD.idx] ELSE LDD.obj) = Details[Len(Details)]
        /\ LDD = AddressOfLast(Details)


(***************************************************************************)
(* C26.  StoreNodes(labels) persists each newly built node exactly once:   *)
(* one row for each node, in order; when labels are given for every node,  *)
(* the row of node i carries labels[i]; and when the insertion of a node   *)
(* fails, StoreNodes returns an error.                                     *)
(***************************************************************************)
C26_StoreNodesPersists ==
    \A c \in Callers :
        (tpc[c] = "storeNodesDone" /\ storing[c].ret # "panic") =>
            LET st == storing[c]
            IN  /\ st.failed => st.ret # "nil"
                /\ ~st.failed =>
                      /\ Len(st.rows) = Len(st.nodes)
                      /\ \A i \in 1..Len(st.rows) :
                            /\ st.rows[i].server = st.nodes[i].Server
                            /\ st.rows[i].local_id = st.nodes[i].LocalID
                            /\ ~st.labels.nil =>
                                  /\ "label" \in DOMAIN st.rows[i]
                                  /\ st.rows[i].label = st.labels.v[i]


\* the goroutine p is inside getSession
InGetSession(p) == ppc[p] \in {"acquire", "dial", "lock"}

(***************************************************************************)
(* C27.  In the ssh pool the semaphore is independent of the pool lock: no *)
(* getSession caller waits for a unit of the semaphore while it holds the  *)
(* reader lock, so concurrent callers cannot deadlock; under fairness,     *)
(* with every dial returning and every session closed, every getSession    *)
(* call returns (in a process that does not panic).                        *)
(***************************************************************************)
C27_GetSessionReturns ==
    \A p \in Procs : InGetSession(p) ~> (ppc[p] = "check" \/ panicked)


\* the scp of pair j to server i has completed
Staged(i, j) ==
    \E v \in Mine : wk[v].kind = "scp" /\ wk[v].i = i /\ wk[v].j = j
                  /\ wk[v].pc \in {"wgDone", "done"}

(***************************************************************************)
(* C28.  In CopyToAllNodes, for every server i and pair j, no docker-cp of *)
(* pair j into a container of server i starts before the scp of source j   *)
(* to the scratch path of server i has completed: a docker-cp goroutine of *)
(* (i, j) exists only once that scp is done, under every interleaving.     *)
(***************************************************************************)
C28_DockerCpAfterScp ==
    \A w \in Mine :
        /\ wk[w].kind = "dockerCp" => Staged(wk[w].i, wk[w].j)
        /\ (wk[w].kind = "stage" /\ wk[w].pc # "start") => Staged(wk[w].i, wk[w].j)

\* a docker-cp of one server is outstanding while the scp to another server
\* has not completed
C28_Witness ==
    /\ helper = "CopyToAllNodes"
    /\ \E w \in Mine : wk[w].kind = "dockerCp" /\ wk[w].pc = "dockerCp"
    /\ \E v \in Mine : wk[v].kind = "scp" /\ wk[v].pc = "scp"


\* the goroutines that hold a unit inside getSession: past sem.Acquire, with
\* no session yet
HoldingInGetSession == {p \in Procs : ppc[p] \in {"dial", "lock"}}

(***************************************************************************)
(* C29.  Every unit of the semaphore taken by getSession is given back     *)
(* exactly once, by getSession on its failure paths or by the close of the *)
(* session it returned: the units held always equal the number of live     *)
(* sessions plus the callers that hold one inside getSession, the count    *)
(* never leaves 0..maxConnections (no unit is released twice), and all     *)
(* units are free when no operation is in progress.                        *)
(***************************************************************************)
C29_UnitsAccounted ==
    /\ sem = Cardinality({p \in Procs : psess[p]}) + Cardinality(HoldingInGetSession)
    /\ sem \in 0..maxConnections
    /\ (\A p \in Procs : ppc[p] = "idle") => sem = 0

\* an Scp whose getSession has failed and given its unit back, while another
\* goroutine is served
C29_Witness ==
    \E p \in Procs, q \in Procs :
        /\ pverb[p] = "Scp" /\ ppc[p] = "check" /\ ~psess[p]
        /\ ppc[q] = "exec" /\ psess[q]
        /\ sem = 1


(***************************************************************************)
(* C30.  In a Build whose servers' IP lists total details.Nodes nodes,     *)
(* stepCount is 1 + 4 * nodes from before the first increment of the       *)
(* progress on; every init worker that succeeds has incremented the        *)
(* progress exactly twice and every start worker that is done exactly      *)
(* once; and stepDone <= stepCount in every state of the build.            *)
(***************************************************************************)
C30_ProgressWithinSteps ==
    bpc # "idle" =>
        /\ stepCount = 1 + 4 * SumIps(servers)
        /\ progress <= stepCount
        /\ \A w \in DOMAIN wk :
              /\ (wk[w].kind = "init" /\ wk[w].pc = "done" /\ ~wk[w].failed) => wk[w].inc = 2
              /\ (wk[w].kind = "start" /\ wk[w].pc = "done") => wk[w].inc = 1
              /\ wk[w].kind \notin {"init", "start"} => wk[w].inc = 0

\* a Build of three nodes has returned with every worker done: three steps
\* for each node
C30_Witness ==
    /\ bpc = "returned"
    /\ SumIps(servers) = 3
    /\ progress = 9
    /\ \E w \in DOMAIN wk : wk[w].kind = "start" /\ wk[w].failed /\ wk[w].inc = 1

(***************************************************************************)
(* C31.  CopyAllToServers, CopyToAllNodes and CopyBytesToAllNodes called   *)
(* with an odd number of variadic path arguments surface the wrong arity   *)
(* immediately: the call is at its return with an error, it has written no *)
(* local file, started no goroutine (so no scp, no docker-cp and no report *)
(* to the BuildState) and registered no cleanup.                           *)
(***************************************************************************)
C31_OddArityRejected ==
    (helper \in {"CopyAllToServers", "CopyToAllNodes", "CopyBytesToAllNodes"}
        /\ nArgs % 2 = 1) =>
            /\ mpc = "returned"
            /\ hret \notin {"none", "nil"}
            /\ fmted = 0
            /\ Mine = {}
            /\ deferred = 0

(***************************************************************************)
(* C32.  CopyToAllNodes terminates, assuming each scp and docker-cp        *)
(* returns: under fairness every call reaches its return, whatever the     *)
(* interleaving of its goroutines on the semaphore, the staging channels   *)
(* and the wait group; and at its return no goroutine it started is still  *)
(* running and every unit of the semaphore is free.                        *)
(***************************************************************************)
C32_CopyToAllNodesTerminates ==
    /\ []((helper = "CopyToAllNodes" /\ mpc = "returned") =>
              (fsem = 0 /\ \A w \in Mine : wk[w].pc = "done"))
    /\ ((helper = "CopyToAllNodes" /\ mpc # "idle") ~> (mpc = "returned"))

\* a call over two servers has returned after its docker-cp goroutines ran
C32_Witness ==
    /\ helper = "CopyToAllNodes"
    /\ mpc = "returned"
    /\ Len(servers) = 2
    /\ fsem = 0
    /\ \E w \in Mine : wk[w].kind = "dockerCp" /\ wk[w].pc = "done"
    /\ \E w \in Mine : wk[w].kind = "dockerCp" /\ wk[w].i = 1

(***************************************************************************)
(* C33.  Whenever Run returns without having executed the command on the   *)
(* remote host, it returns a non-nil error; in particular when Stop() is   *)
(* true because of an external abort while no error has been reported to   *)
(* the BuildState.                                                         *)
(***************************************************************************)
C33_UnexecutedRunReturnsError ==
    [][\A p \in Procs :
          (RunCheck(p) /\ ppc'[p] = AfterRun(p) /\ ~ran'[p]) => ret'[p] # "nil"]_vars

(***************************************************************************)
(* C34.  After the start phase of a Build spanning several servers that    *)
(* share one BuildState, the scratchpad holds the recorded start command   *)
(* of every node: recording the command of local node k on one server      *)
(* never overwrites the record of local node k on another server.          *)
(***************************************************************************)
C34_EveryStartCommandRecorded ==
    ((bpc = "start" /\ mpc = "returned") \/ bpc = "returned") =>
        \A w \in DOMAIN wk :
            (wk[w].kind = "start" /\ wk[w].pc = "done") =>
                \E e \in scratch : e[2].ServerID = wk[w].i /\ e[2].Node = wk[w].k

=============================================================================
